---- MODULE Spec2Model ----
(***************************************************************************)
(* A model of Jaggilines/default.js: the toroidal elevation Map and its    *)
(* diamond-square generator, the Viewport's per-column occlusion buffer,   *)
(* the Valkyrie's fixed-point integration step with its move observers,    *)
(* and the game loop.                                                      *)
(***************************************************************************)
EXTENDS Integers, Sequences, FiniteSets, TLC

VARIABLES
    \* ---- Viewport (occlusion buffer of the frame being drawn)
    width,          \* Viewport.width
    topHeights,     \* Viewport.#topHeights : column -> recorded top, -1 = undrawn
    drawn,          \* the drawImage calls of the last #drawMountainColumn call
    submitted,      \* history: per in-viewport column, the candidates of this frame
    mountainDraws,  \* history: per column, the mountain-pixel draws of this frame
    lastCall,       \* history: the last #drawMountainColumn call and the height before it
    memo,           \* draw()'s memo of the frame last drawn: cell -> screen column and row
    agenda,         \* the statements the draw() in progress has still to run
    interpolated,   \* history: the #interpolate invocations of the last statement
    framesDrawn,    \* history: number of draw() calls begun
    \* ---- Map
    size,           \* Map.size
    map,            \* Map.#map : row -> col -> elevation
    changeHandlers, \* Map.#changeHandlers
    notified,       \* history: handler calls made by the last operation
    setLog,         \* history: the set() calls made by the last operation
    prevMap,        \* history: Map.#map before the last operation
    prevChange,     \* history: Map.#changeHandlers before the last operation
    lastOp,         \* history: the last Map operation and its argument
    notifyCount,    \* history: handler -> notifications since generate() started
    writes,         \* history: row -> col -> writes since generate() started
    stack,          \* call stack of the running generate(): pending #diamond/#square calls
    rnd,            \* the outcomes Math.random() will return, as a periodic stream
    draws,          \* number of Math.random() calls made so far
    budget,         \* Map API calls the behaviour may still make
    \* ---- Valkyrie
    ship,           \* x, y, z, thrust, heading, pitch, roll, rollToAngle
    moveHandlers,   \* Valkyrie.#moveHandlers
    moveCalls,      \* history: <<handler, ship it saw>> for the last move()
    handlersAtMove, \* history: Valkyrie.#moveHandlers when the last move() began
    shipAtMove,     \* history: the ship when the last move() began
    moves,          \* number of move() calls made so far
    \* ---- game loop
    frame,          \* the module-level tick counter
    rendering,      \* gameLoop's re-entrancy flag
    timer,          \* the callback of setInterval(gameLoop, tick): "waiting", "due" or "late"
    \* ---- the module's functions
    call,           \* the last call of one of the module's functions, with its result
    prevCall        \* history: the call before it

colVars  == <<width, topHeights, drawn, submitted, mountainDraws, lastCall, memo,
              agenda, interpolated, framesDrawn>>
mapVars  == <<size, map, changeHandlers, notified, setLog, prevMap, prevChange,
              lastOp, notifyCount, writes, stack, rnd, draws, budget>>
shipVars == <<ship, moveHandlers, moveCalls, handlersAtMove, shipAtMove, moves>>
loopVars == <<frame, rendering, timer>>
fnVars   == <<call, prevCall>>
vars     == <<colVars, mapVars, shipVars, loopVars, fnVars>>

-----------------------------------------------------------------------------
(* Program constants.                                                      *)

mapCoordinateBits == 4
bitsBetweenTops == 12
coordinateBits == mapCoordinateBits + bitsBetweenTops
viewportScalePowerOfTwo == 2
viewportWidth == 160
viewportHeight == 48
viewportVerticalOffset == 50
viewPortScreenPixelPowerOfTwo == 1
viewDistance == 5
maxHeightBits == 12
angleUnitPowerOfTwo == 2

Pow2(n) == 2 ^ n

mapSize == Pow2(mapCoordinateBits)
maxHeight == Pow2(maxHeightBits)
maxVariation == maxHeight \div 16
defaultThrust == Pow2(5)
north == 90 * Pow2(angleUnitPowerOfTwo)
east == 0
west == 180 * Pow2(angleUnitPowerOfTwo)
south == 270 * Pow2(angleUnitPowerOfTwo)
quarterCircle == 90 * Pow2(angleUnitPowerOfTwo)
halfCircle == 180 * Pow2(angleUnitPowerOfTwo)
fullCircle == 360 * Pow2(angleUnitPowerOfTwo)

-----------------------------------------------------------------------------
(* Bounds of the model.                                                    *)

ViewWidth == 2      \* columns of the modelled viewport (160 in the program)
TopRange == 2       \* candidate tops range over -TopRange..TopRange and the example's
MaxSubmits == 3     \* #drawMountainColumn calls modelled per frame

-----------------------------------------------------------------------------
(* JavaScript arithmetic.                                                  *)

\* n % m of JavaScript: the remainder takes the sign of the dividend.
JsRem(n, m) == IF n >= 0 THEN n % m ELSE -((-n) % m)

\* Math.floor of the rational num/den, den > 0.
Floor(num, den) == num \div den

\* v << s and v >> s for values that stay inside 32 bits.
Shl(v, s) == v * Pow2(s)
Shr(v, s) == v \div Pow2(s)

modNoWrap(n, m) == JsRem(n, m)
modAbs(n, m) == IF JsRem(n, m) < 0 THEN -JsRem(n, m) ELSE JsRem(n, m)
mod(n, m) == JsRem(JsRem(n, m) + m, m)

-----------------------------------------------------------------------------
(* Viewport: the occlusion buffer and #drawMountainColumn.                 *)

Columns == 0 .. (width - 1)

DrawImage(pixel, dx, dy, dw, dh) ==
    [pixel |-> pixel, dx |-> dx, dy |-> dy, dw |-> dw, dh |-> dh]

\* The result of #drawMountainColumn(xScreen, mountainTop) on the buffer th:
\* the new buffer and the drawImage calls made.
drawMountainColumn(th, w, xScreen, mountainTop) ==
    LET s == viewportScalePowerOfTwo
        h == viewportHeight
    IN  IF xScreen < 0 \/ xScreen >= w
        THEN [th |-> th, out |-> << >>]
        ELSE LET topHeight == th[xScreen] IN
             IF topHeight = -1
             THEN [th  |-> [th EXCEPT ![xScreen] = mountainTop],
                   out |-> << DrawImage("sky", Shl(xScreen, s), 0, Shl(1, s),
                                        Shl(h - mountainTop, s)),
                              DrawImage("mountain", Shl(xScreen, s),
                                        Shl(h - mountainTop, s), Shl(1, s),
                                        Shl(mountainTop, s)) >>]
             ELSE IF mountainTop > topHeight
             THEN [th  |-> [th EXCEPT ![xScreen] = mountainTop],
                   out |-> << DrawImage("edge", Shl(xScreen, s),
                                        Shl(h - topHeight, s), Shl(1, s), Shl(1, s)),
                              DrawImage("mountain", Shl(xScreen, s),
                                        Shl(h - mountainTop, s), Shl(1, s),
                                        Shl(mountainTop - topHeight, s)) >>]
             ELSE [th |-> th, out |-> << >>]

\* The candidate tops the renderer may submit: screen rows around the bottom edge
\* of the viewport (negative rows occur whenever a summit is seen from well above),
\* and the heights 10, 25, 18 of the specification's example.
Tops == (-TopRange .. TopRange) \cup {10, 18, 25}

\* Screen columns a projected point may fall on: inside the viewport and just outside.
ScreenXs == -1 .. width

NoColumns(w) == [c \in 0 .. (w - 1) |-> << >>]

NoCall == [x |-> -1, top |-> 0, before |-> 0]

\* const memo = []
keptMemo(m) == m
newMemo(m) == << >>
EmptyMemo == << >>

SubmittedCount == LET Sum[c \in -1 .. (width - 1)] ==
                          IF c = -1 THEN 0 ELSE Sum[c - 1] + Len(submitted[c])
                  IN  Sum[width - 1]

MountainDrawsOf(out) == Len(SelectSeq(out, LAMBDA d : d.pixel = "mountain"))

\* new Array(this.width).fill(-1)
keptTopHeights(w) == topHeights
clearedTopHeights(w) == [c \in 0 .. (w - 1) |-> -1]

\* The start of draw(): every column of the occlusion buffer becomes undrawn.
DrawBegin ==
    /\ topHeights' = clearedTopHeights(width)
    /\ drawn' = << >>
    /\ submitted' = NoColumns(width)
    /\ mountainDraws' = [c \in Columns |-> 0]
    /\ lastCall' = NoCall
    /\ memo' = EmptyMemo
    /\ UNCHANGED <<width, agenda, interpolated, framesDrawn>>
    /\ UNCHANGED <<mapVars, shipVars, loopVars, fnVars>>

\* One #drawMountainColumn call of the frame in progress.
DrawMountainColumn(xScreen, mountainTop) ==
    /\ SubmittedCount < MaxSubmits
    /\ LET r == drawMountainColumn(topHeights, width, xScreen, mountainTop) IN
       /\ topHeights' = r.th
       /\ drawn' = r.out
       /\ submitted' = IF xScreen \in Columns
                       THEN [submitted EXCEPT ![xScreen] = Append(@, mountainTop)]
                       ELSE submitted
       /\ mountainDraws' = IF xScreen \in Columns
                           THEN [mountainDraws EXCEPT
                                    ![xScreen] = @ + MountainDrawsOf(r.out)]
                           ELSE mountainDraws
       /\ lastCall' = [x |-> xScreen, top |-> mountainTop,
                       before |-> IF xScreen \in Columns THEN topHeights[xScreen] ELSE 0]
    /\ UNCHANGED <<width, memo, agenda, interpolated, framesDrawn>>
    /\ UNCHANGED <<mapVars, shipVars, loopVars, fnVars>>

SubmitColumn == \E x \in ScreenXs, t \in Tops : DrawMountainColumn(x, t)

-----------------------------------------------------------------------------
(* Map: the toroidal elevation grid, its observers and its generators.     *)

NumHandlers == 2    \* distinct handler functions that may be registered
MaxWrap == 1        \* coordinates reach MaxWrap grid widths beyond the grid on either side
MaxMapSize == 3     \* largest grid of the specification of the Map API
MaxCalls == 2       \* Map API calls per behaviour
RandDen == 4        \* Math.random() returns k / RandDen, k in 0 .. RandDen - 1
RandPeriod == 2     \* period of the stream of Math.random() outcomes
ValDen == 2         \* elevations passed to set() are multiples of 1 / ValDen

HandlerIds == 1 .. NumHandlers

\* Array(size).fill().map(_ => Array(size).fill(0))
NewMap(n) == [r \in 0 .. (n - 1) |-> [c \in 0 .. (n - 1) |-> 0]]

\* Map.get on the grid m of size n.
MapGet(m, n, row, col) == m[mod(row, n)][mod(col, n)]

\* this.#map[row][col] = val
MapStore(m, r, c, val) == [m EXCEPT ![r][c] = val]

Occurrences(seq, h) == Cardinality({i \in DOMAIN seq : seq[i] = h})

\* this.#changeHandlers.forEach(handler => handler(row, col, val))
NotifyChange(handlers, row, col, val) ==
    [i \in 1 .. Len(handlers) |-> <<handlers[i], row, col, val>>]

\* The part of the state Map.set works on.
MapState == [map |-> map, notified |-> << >>, setLog |-> << >>,
             notifyCount |-> notifyCount, writes |-> writes]

\* Map.set(row, col, num / den) with the given handlers registered.
MapSetNotifyRaw(S, n, handlers, row, col, num, den) ==
    LET val == Floor(num, den)
        r == mod(row, n)
        c == mod(col, n)
    IN  [map |-> MapStore(S.map, r, c, val),
         notified |-> S.notified \o NotifyChange(handlers, row, col, val),
         setLog |-> Append(S.setLog, [row |-> row, col |-> col, num |-> num, den |-> den]),
         notifyCount |-> [h \in HandlerIds |->
                             S.notifyCount[h] + Occurrences(handlers, h)],
         writes |-> [S.writes EXCEPT ![r][c] = @ + 1]]
MapSet(S, n, handlers, row, col, num, den) ==
    LET val == Floor(num, den)
        r == mod(row, n)
        c == mod(col, n)
    IN  [map |-> MapStore(S.map, r, c, val),
         notified |-> S.notified \o NotifyChange(handlers, r, c, val),
         setLog |-> Append(S.setLog, [row |-> row, col |-> col, num |-> num, den |-> den]),
         notifyCount |-> [h \in HandlerIds |->
                             S.notifyCount[h] + Occurrences(handlers, h)],
         writes |-> [S.writes EXCEPT ![r][c] = @ + 1]]

\* clamp(num / den, max)
clampNoMax(num, den, max) == IF num < 0 THEN 0 ELSE Floor(num, den)
clamp(num, den, max) ==
    IF num < 0 THEN 0 ELSE IF num > max * den THEN max ELSE Floor(num, den)

\* The numerator, over 4 * RandDen, of avg + Math.random() * 2 * varyBy - varyBy
\* where avg = sum / 4 and Math.random() = k / RandDen.
VariedNum(sum, k, varyBy) == sum * RandDen + 8 * k * varyBy - 4 * RandDen * varyBy

\* varyFromAverage(vals, varyBy) for four values, Math.random() returning k / RandDen.
varyFromAverage(vals, k, varyBy) ==
    clamp(VariedNum(vals[1] + vals[2] + vals[3] + vals[4], k, varyBy),
          4 * RandDen, maxHeight)

\* The outcome of the next Math.random() call.
NextRandom == rnd[(draws % RandPeriod) + 1]

Call(fn, row, col, sz) == [fn |-> fn, row |-> row, col |-> col, size |-> sz]

Commit(S) ==
    /\ map' = S.map
    /\ notified' = S.notified
    /\ setLog' = S.setLog
    /\ notifyCount' = S.notifyCount
    /\ writes' = S.writes
    /\ prevMap' = map
    /\ prevChange' = changeHandlers

Idle == stack = << >>

\* Map.addChangeListener(handler)
AddChangeListener(h) ==
    /\ Idle /\ budget > 0
    /\ changeHandlers' = Append(changeHandlers, h)
    /\ lastOp' = [op |-> "add", h |-> h]
    /\ budget' = budget - 1
    /\ Commit([MapState EXCEPT !.notified = << >>])
    /\ UNCHANGED <<size, stack, rnd, draws, colVars, shipVars, loopVars, fnVars>>

\* handlers.indexOf(handler) as a 1-based position, 0 when absent.
IndexOf(seq, h) ==
    IF \E i \in DOMAIN seq : seq[i] = h
    THEN CHOOSE i \in DOMAIN seq : seq[i] = h /\ \A j \in 1 .. (i - 1) : seq[j] # h
    ELSE 0

\* handlers.splice(i, 1) at the 1-based position i.
Splice1(seq, i) == SubSeq(seq, 1, i - 1) \o SubSeq(seq, i + 1, Len(seq))

removeListener(handlers, h) ==
    LET i == IndexOf(handlers, h) IN IF i # 0 THEN Splice1(handlers, i) ELSE handlers

\* Map.removeChangeListener(handler)
RemoveChangeListener(h) ==
    /\ Idle /\ budget > 0
    /\ changeHandlers' = removeListener(changeHandlers, h)
    /\ lastOp' = [op |-> "remove", h |-> h]
    /\ budget' = budget - 1
    /\ Commit([MapState EXCEPT !.notified = << >>])
    /\ UNCHANGED <<size, stack, rnd, draws, colVars, shipVars, loopVars, fnVars>>

\* The cells direct set() calls are made at: corners of the grid, their neighbours
\* across the border, and cells further out on either side.
SetPoints == { <<0, 0>>, <<-1, size>>, <<size - 1, -1>>, <<size, size - 1>>,
               <<-(MaxWrap * size) - 1, (MaxWrap + 1) * size>>,
               <<-(MaxWrap * size), 1>> }
\* The numerators of the elevations they store: -3/2 and 5/2 for ValDen = 2.
ValNums == {-3, 5}

\* A direct Map.set(row, col, num / ValDen) call.
Set(row, col, num) ==
    /\ Idle /\ budget > 0
    /\ Commit(MapSet(MapState, size, changeHandlers, row, col, num, ValDen))
    /\ lastOp' = [op |-> "set", row |-> row, col |-> col, num |-> num, den |-> ValDen]
    /\ budget' = budget - 1
    /\ UNCHANGED <<size, changeHandlers, stack, rnd, draws, colVars, shipVars, loopVars, fnVars>>

\* The elevation a slope generator writes at (x, y) is SlopeNum / SlopeDen, floored;
\* `both` tells generateWestToEastAndNorthToSouthSlope from generateWestToEastSlope.
SlopeNum(both, n, x, y) ==
    IF both THEN maxHeight * (Shl(n, 1) - x - y) ELSE maxHeight * (n - x)
SlopeDen(both, n) == IF both THEN Shl(n, 1) ELSE n

\* The loops of the slope generators from cell number i on.
RECURSIVE SlopeFrom(_, _, _, _, _)
SlopeFrom(S, n, handlers, i, both) ==
    IF i >= n * n THEN S
    ELSE LET x == i \div n
             y == i % n
         IN  SlopeFrom(MapSet(S, n, handlers, x, y,
                              Floor(SlopeNum(both, n, x, y), SlopeDen(both, n)), 1),
                       n, handlers, i + 1, both)

\* Map.generateWestToEastAndNorthToSouthSlope()
GenerateWestToEastAndNorthToSouthSlope ==
    /\ Idle /\ budget > 0
    /\ Commit(SlopeFrom(MapState, size, changeHandlers, 0, TRUE))
    /\ lastOp' = [op |-> "slope2"]
    /\ budget' = budget - 1
    /\ UNCHANGED <<size, changeHandlers, stack, rnd, draws, colVars, shipVars, loopVars, fnVars>>

\* Map.generateWestToEastSlope()
GenerateWestToEastSlope ==
    /\ Idle /\ budget > 0
    /\ Commit(SlopeFrom(MapState, size, changeHandlers, 0, FALSE))
    /\ lastOp' = [op |-> "slope1"]
    /\ budget' = budget - 1
    /\ UNCHANGED <<size, changeHandlers, stack, rnd, draws, colVars, shipVars, loopVars, fnVars>>

\* Map.generate(): seed the top-left corner and call #diamond(0, 0, size).
Generate ==
    /\ Idle /\ budget > 0
    /\ Commit(MapSet([MapState EXCEPT !.notifyCount = [h \in HandlerIds |-> 0],
                                      !.writes = NewMap(size)],
                     size, changeHandlers, 0, 0, NextRandom * maxHeight, RandDen))
    /\ draws' = draws + 1
    /\ stack' = << Call("diamond", 0, 0, size) >>
    /\ lastOp' = [op |-> "generate"]
    /\ budget' = budget - 1
    /\ UNCHANGED <<size, changeHandlers, rnd, colVars, shipVars, loopVars, fnVars>>

\* this.get(row, col) as a step of generate() makes it: the cell read, and whether
\* a set() of this generate() has written it.
Read(row, col) ==
    [row |-> mod(row, size), col |-> mod(col, size),
     written |-> writes[mod(row, size)][mod(col, size)] > 0]

\* The four cells Map.#diamond and Map.#square average.
diamondReads(f) ==
    LET halfSizex2 == Shl(Shr(f.size, 1), 1)
    IN  IF f.size <= 1 THEN << >>
        ELSE << Read(f.row, f.col), Read(f.row, f.col + halfSizex2),
                Read(f.row + halfSizex2, f.col),
                Read(f.row + halfSizex2, f.col + halfSizex2) >>
squareReads(f) ==
    LET halfSize == Shr(f.size, 1)
    IN  IF f.size <= 1 THEN << >>
        ELSE << Read(f.row - halfSize, f.col), Read(f.row + halfSize, f.col),
                Read(f.row, f.col + halfSize), Read(f.row, f.col - halfSize) >>

\* The pending call at the top of the stack runs: Map.#diamond(row, col, size).
diamondCalls(f) ==
    LET halfSize == Shr(f.size, 1)
        halfSizex2 == Shl(halfSize, 1)
    IN  << Call("square", f.row + halfSizex2, f.col + halfSize, f.size),
           Call("square", f.row + halfSize, f.col + halfSizex2, f.size) >>

DiamondStep ==
    /\ stack # << >> /\ Head(stack).fn = "diamond"
    /\ LET f == Head(stack)
           halfSize == Shr(f.size, 1)
           halfSizex2 == Shl(halfSize, 1)
       IN  IF f.size <= 1
           THEN /\ stack' = Tail(stack)
                /\ Commit([MapState EXCEPT !.notified = << >>])
                /\ draws' = draws
           ELSE /\ Commit(MapSet(MapState, size, changeHandlers,
                                 f.row + halfSize, f.col + halfSize,
                                 varyFromAverage(
                                     << MapGet(map, size, f.row, f.col),
                                        MapGet(map, size, f.row, f.col + halfSizex2),
                                        MapGet(map, size, f.row + halfSizex2, f.col),
                                        MapGet(map, size, f.row + halfSizex2,
                                               f.col + halfSizex2) >>,
                                     NextRandom, maxVariation * f.size), 1))
                /\ draws' = draws + 1
                /\ stack' = diamondCalls(f) \o Tail(stack)
    /\ lastOp' = [op |-> "diamond", call |-> Head(stack), reads |-> diamondReads(Head(stack))]
    /\ UNCHANGED <<size, changeHandlers, rnd, budget, colVars, shipVars, loopVars, fnVars>>

\* The pending call at the top of the stack runs: Map.#square(row, col, size).
squareCallsSameRow(f) ==
    LET halfSize == Shr(f.size, 1)
    IN  << Call("diamond", f.row, f.col, halfSize),
           Call("diamond", f.row, f.col, halfSize) >>
squareCalls(f) ==
    LET halfSize == Shr(f.size, 1)
    IN  << Call("diamond", f.row, f.col, halfSize),
           Call("diamond", f.row - halfSize, f.col, halfSize) >>

SquareStep ==
    /\ stack # << >> /\ Head(stack).fn = "square"
    /\ LET f == Head(stack)
           halfSize == Shr(f.size, 1)
       IN  IF f.size <= 1
           THEN /\ stack' = Tail(stack)
                /\ Commit([MapState EXCEPT !.notified = << >>])
                /\ draws' = draws
           ELSE /\ Commit(MapSet(MapState, size, changeHandlers,
                                 f.row + halfSize, f.col + halfSize,
                                 varyFromAverage(
                                     << MapGet(map, size, f.row - halfSize, f.col),
                                        MapGet(map, size, f.row + halfSize, f.col),
                                        MapGet(map, size, f.row, f.col + halfSize),
                                        MapGet(map, size, f.row, f.col - halfSize) >>,
                                     NextRandom, maxVariation * f.size), 1))
                /\ draws' = draws + 1
                /\ stack' = squareCalls(f) \o Tail(stack)
    /\ lastOp' = [op |-> "square", call |-> Head(stack), reads |-> squareReads(Head(stack))]
    /\ UNCHANGED <<size, changeHandlers, rnd, budget, colVars, shipVars, loopVars, fnVars>>

-----------------------------------------------------------------------------
(* The trigonometric tables: floor(cos(a * PI / halfCircle) * 2^12) and     *)
(* floor(sin(a * PI / halfCircle) * 2^12) for a = 0 .. fullCircle - 1.      *)

cosTableData ==
    <<4096, 4095, 4095, 4095, 4095, 4095, 4094, 4094, 4093, 4092, 4092, 4091,
      4090, 4089, 4088, 4087, 4086, 4084, 4083, 4081, 4080, 4078, 4077, 4075,
      4073, 4071, 4069, 4067, 4065, 4063, 4060, 4058, 4056, 4053, 4051, 4048,
      4045, 4042, 4039, 4036, 4033, 4030, 4027, 4024, 4020, 4017, 4013, 4010,
      4006, 4002, 3998, 3995, 3991, 3986, 3982, 3978, 3974, 3969, 3965, 3961,
      3956, 3951, 3947, 3942, 3937, 3932, 3927, 3922, 3917, 3911, 3906, 3901,
      3895, 3889, 3884, 3878, 3872, 3866, 3861, 3855, 3848, 3842, 3836, 3830,
      3823, 3817, 3810, 3804, 3797, 3791, 3784, 3777, 3770, 3763, 3756, 3749,
      3741, 3734, 3727, 3719, 3712, 3704, 3696, 3689, 3681, 3673, 3665, 3657,
      3649, 3641, 3633, 3624, 3616, 3608, 3599, 3591, 3582, 3573, 3564, 3556,
      3547, 3538, 3529, 3520, 3510, 3501, 3492, 3483, 3473, 3464, 3454, 3444,
      3435, 3425, 3415, 3405, 3395, 3385, 3375, 3365, 3355, 3344, 3334, 3324,
      3313, 3303, 3292, 3281, 3271, 3260, 3249, 3238, 3227, 3216, 3205, 3194,
      3183, 3171, 3160, 3149, 3137, 3126, 3114, 3102, 3091, 3079, 3067, 3055,
      3043, 3031, 3019, 3007, 2995, 2983, 2971, 2958, 2946, 2933, 2921, 2908,
      2896, 2883, 2870, 2858, 2845, 2832, 2819, 2806, 2793, 2780, 2767, 2754,
      2740, 2727, 2714, 2700, 2687, 2673, 2660, 2646, 2632, 2619, 2605, 2591,
      2577, 2563, 2549, 2535, 2521, 2507, 2493, 2479, 2465, 2450, 2436, 2422,
      2407, 2393, 2378, 2363, 2349, 2334, 2319, 2305, 2290, 2275, 2260, 2245,
      2230, 2215, 2200, 2185, 2170, 2155, 2140, 2124, 2109, 2094, 2078, 2063,
      2048, 2032, 2016, 2001, 1985, 1970, 1954, 1938, 1922, 1907, 1891, 1875,
      1859, 1843, 1827, 1811, 1795, 1779, 1763, 1747, 1731, 1714, 1698, 1682,
      1665, 1649, 1633, 1616, 1600, 1583, 1567, 1550, 1534, 1517, 1501, 1484,
      1467, 1451, 1434, 1417, 1400, 1384, 1367, 1350, 1333, 1316, 1299, 1282,
      1265, 1248, 1231, 1214, 1197, 1180, 1163, 1146, 1129, 1111, 1094, 1077,
      1060, 1042, 1025, 1008, 990, 973, 956, 938, 921, 903, 886, 869,
      851, 834, 816, 799, 781, 764, 746, 728, 711, 693, 676, 658,
      640, 623, 605, 587, 570, 552, 534, 516, 499, 481, 463, 445,
      428, 410, 392, 374, 356, 339, 321, 303, 285, 267, 250, 232,
      214, 196, 178, 160, 142, 125, 107, 89, 71, 53, 35, 17,
      0, -18, -36, -54, -72, -90, -108, -126, -143, -161, -179, -197,
      -215, -233, -251, -268, -286, -304, -322, -340, -357, -375, -393, -411,
      -429, -446, -464, -482, -500, -517, -535, -553, -571, -588, -606, -624,
      -641, -659, -677, -694, -712, -729, -747, -765, -782, -800, -817, -835,
      -852, -870, -887, -904, -922, -939, -957, -974, -991, -1009, -1026, -1043,
      -1061, -1078, -1095, -1112, -1130, -1147, -1164, -1181, -1198, -1215, -1232, -1249,
      -1266, -1283, -1300, -1317, -1334, -1351, -1368, -1385, -1401, -1418, -1435, -1452,
      -1468, -1485, -1502, -1518, -1535, -1551, -1568, -1584, -1601, -1617, -1634, -1650,
      -1666, -1683, -1699, -1715, -1732, -1748, -1764, -1780, -1796, -1812, -1828, -1844,
      -1860, -1876, -1892, -1908, -1923, -1939, -1955, -1971, -1986, -2002, -2017, -2033,
      -2048, -2064, -2079, -2095, -2110, -2125, -2141, -2156, -2171, -2186, -2201, -2216,
      -2231, -2246, -2261, -2276, -2291, -2306, -2320, -2335, -2350, -2364, -2379, -2394,
      -2408, -2423, -2437, -2451, -2466, -2480, -2494, -2508, -2522, -2536, -2550, -2564,
      -2578, -2592, -2606, -2620, -2633, -2647, -2661, -2674, -2688, -2701, -2715, -2728,
      -2741, -2755, -2768, -2781, -2794, -2807, -2820, -2833, -2846, -2859, -2871, -2884,
      -2897, -2909, -2922, -2934, -2947, -2959, -2972, -2984, -2996, -3008, -3020, -3032,
      -3044, -3056, -3068, -3080, -3092, -3103, -3115, -3127, -3138, -3150, -3161, -3172,
      -3184, -3195, -3206, -3217, -3228, -3239, -3250, -3261, -3272, -3282, -3293, -3304,
      -3314, -3325, -3335, -3345, -3356, -3366, -3376, -3386, -3396, -3406, -3416, -3426,
      -3436, -3445, -3455, -3465, -3474, -3484, -3493, -3502, -3511, -3521, -3530, -3539,
      -3548, -3557, -3565, -3574, -3583, -3592, -3600, -3609, -3617, -3625, -3634, -3642,
      -3650, -3658, -3666, -3674, -3682, -3690, -3697, -3705, -3713, -3720, -3728, -3735,
      -3742, -3750, -3757, -3764, -3771, -3778, -3785, -3792, -3798, -3805, -3811, -3818,
      -3824, -3831, -3837, -3843, -3849, -3856, -3862, -3867, -3873, -3879, -3885, -3890,
      -3896, -3902, -3907, -3912, -3918, -3923, -3928, -3933, -3938, -3943, -3948, -3952,
      -3957, -3962, -3966, -3970, -3975, -3979, -3983, -3987, -3992, -3996, -3999, -4003,
      -4007, -4011, -4014, -4018, -4021, -4025, -4028, -4031, -4034, -4037, -4040, -4043,
      -4046, -4049, -4052, -4054, -4057, -4059, -4061, -4064, -4066, -4068, -4070, -4072,
      -4074, -4076, -4078, -4079, -4081, -4082, -4084, -4085, -4087, -4088, -4089, -4090,
      -4091, -4092, -4093, -4093, -4094, -4095, -4095, -4096, -4096, -4096, -4096, -4096,
      -4096, -4096, -4096, -4096, -4096, -4096, -4095, -4095, -4094, -4093, -4093, -4092,
      -4091, -4090, -4089, -4088, -4087, -4085, -4084, -4082, -4081, -4079, -4078, -4076,
      -4074, -4072, -4070, -4068, -4066, -4064, -4061, -4059, -4057, -4054, -4052, -4049,
      -4046, -4043, -4040, -4037, -4034, -4031, -4028, -4025, -4021, -4018, -4014, -4011,
      -4007, -4003, -3999, -3996, -3992, -3987, -3983, -3979, -3975, -3970, -3966, -3962,
      -3957, -3952, -3948, -3943, -3938, -3933, -3928, -3923, -3918, -3912, -3907, -3902,
      -3896, -3890, -3885, -3879, -3873, -3867, -3862, -3856, -3849, -3843, -3837, -3831,
      -3824, -3818, -3811, -3805, -3798, -3792, -3785, -3778, -3771, -3764, -3757, -3750,
      -3742, -3735, -3728, -3720, -3713, -3705, -3697, -3690, -3682, -3674, -3666, -3658,
      -3650, -3642, -3634, -3625, -3617, -3609, -3600, -3592, -3583, -3574, -3565, -3557,
      -3548, -3539, -3530, -3521, -3511, -3502, -3493, -3484, -3474, -3465, -3455, -3445,
      -3436, -3426, -3416, -3406, -3396, -3386, -3376, -3366, -3356, -3345, -3335, -3325,
      -3314, -3304, -3293, -3282, -3272, -3261, -3250, -3239, -3228, -3217, -3206, -3195,
      -3184, -3172, -3161, -3150, -3138, -3127, -3115, -3103, -3092, -3080, -3068, -3056,
      -3044, -3032, -3020, -3008, -2996, -2984, -2972, -2959, -2947, -2934, -2922, -2909,
      -2897, -2884, -2871, -2859, -2846, -2833, -2820, -2807, -2794, -2781, -2768, -2755,
      -2741, -2728, -2715, -2701, -2688, -2674, -2661, -2647, -2633, -2620, -2606, -2592,
      -2578, -2564, -2550, -2536, -2522, -2508, -2494, -2480, -2466, -2451, -2437, -2423,
      -2408, -2394, -2379, -2364, -2350, -2335, -2320, -2306, -2291, -2276, -2261, -2246,
      -2231, -2216, -2201, -2186, -2171, -2156, -2141, -2125, -2110, -2095, -2079, -2064,
      -2049, -2033, -2017, -2002, -1986, -1971, -1955, -1939, -1923, -1908, -1892, -1876,
      -1860, -1844, -1828, -1812, -1796, -1780, -1764, -1748, -1732, -1715, -1699, -1683,
      -1666, -1650, -1634, -1617, -1601, -1584, -1568, -1551, -1535, -1518, -1502, -1485,
      -1468, -1452, -1435, -1418, -1401, -1385, -1368, -1351, -1334, -1317, -1300, -1283,
      -1266, -1249, -1232, -1215, -1198, -1181, -1164, -1147, -1130, -1112, -1095, -1078,
      -1061, -1043, -1026, -1009, -991, -974, -957, -939, -922, -904, -887, -870,
      -852, -835, -817, -800, -782, -765, -747, -729, -712, -694, -677, -659,
      -641, -624, -606, -588, -571, -553, -535, -517, -500, -482, -464, -446,
      -429, -411, -393, -375, -357, -340, -322, -304, -286, -268, -251, -233,
      -215, -197, -179, -161, -143, -126, -108, -90, -72, -54, -36, -18,
      -1, 17, 35, 53, 71, 89, 107, 125, 142, 160, 178, 196,
      214, 232, 250, 267, 285, 303, 321, 339, 356, 374, 392, 410,
      428, 445, 463, 481, 499, 516, 534, 552, 570, 587, 605, 623,
      640, 658, 676, 693, 711, 728, 746, 764, 781, 799, 816, 834,
      851, 869, 886, 903, 921, 938, 956, 973, 990, 1008, 1025, 1042,
      1060, 1077, 1094, 1111, 1129, 1146, 1163, 1180, 1197, 1214, 1231, 1248,
      1265, 1282, 1299, 1316, 1333, 1350, 1367, 1384, 1400, 1417, 1434, 1451,
      1467, 1484, 1501, 1517, 1534, 1550, 1567, 1583, 1600, 1616, 1633, 1649,
      1665, 1682, 1698, 1714, 1731, 1747, 1763, 1779, 1795, 1811, 1827, 1843,
      1859, 1875, 1891, 1907, 1922, 1938, 1954, 1970, 1985, 2001, 2016, 2032,
      2048, 2063, 2078, 2094, 2109, 2124, 2140, 2155, 2170, 2185, 2200, 2215,
      2230, 2245, 2260, 2275, 2290, 2305, 2319, 2334, 2349, 2363, 2378, 2393,
      2407, 2422, 2436, 2450, 2465, 2479, 2493, 2507, 2521, 2535, 2549, 2563,
      2577, 2591, 2605, 2619, 2632, 2646, 2660, 2673, 2687, 2700, 2714, 2727,
      2740, 2754, 2767, 2780, 2793, 2806, 2819, 2832, 2845, 2858, 2870, 2883,
      2896, 2908, 2921, 2933, 2946, 2958, 2971, 2983, 2995, 3007, 3019, 3031,
      3043, 3055, 3067, 3079, 3091, 3102, 3114, 3126, 3137, 3149, 3160, 3171,
      3183, 3194, 3205, 3216, 3227, 3238, 3249, 3260, 3271, 3281, 3292, 3303,
      3313, 3324, 3334, 3344, 3355, 3365, 3375, 3385, 3395, 3405, 3415, 3425,
      3435, 3444, 3454, 3464, 3473, 3483, 3492, 3501, 3510, 3520, 3529, 3538,
      3547, 3556, 3564, 3573, 3582, 3591, 3599, 3608, 3616, 3624, 3633, 3641,
      3649, 3657, 3665, 3673, 3681, 3689, 3696, 3704, 3712, 3719, 3727, 3734,
      3741, 3749, 3756, 3763, 3770, 3777, 3784, 3791, 3797, 3804, 3810, 3817,
      3823, 3830, 3836, 3842, 3848, 3855, 3861, 3866, 3872, 3878, 3884, 3889,
      3895, 3901, 3906, 3911, 3917, 3922, 3927, 3932, 3937, 3942, 3947, 3951,
      3956, 3961, 3965, 3969, 3974, 3978, 3982, 3986, 3991, 3995, 3998, 4002,
      4006, 4010, 4013, 4017, 4020, 4024, 4027, 4030, 4033, 4036, 4039, 4042,
      4045, 4048, 4051, 4053, 4056, 4058, 4060, 4063, 4065, 4067, 4069, 4071,
      4073, 4075, 4077, 4078, 4080, 4081, 4083, 4084, 4086, 4087, 4088, 4089,
      4090, 4091, 4092, 4092, 4093, 4094, 4094, 4095, 4095, 4095, 4095, 4095 >>

sinTableData ==
    <<0, 17, 35, 53, 71, 89, 107, 125, 142, 160, 178, 196,
      214, 232, 250, 267, 285, 303, 321, 339, 356, 374, 392, 410,
      428, 445, 463, 481, 499, 516, 534, 552, 570, 587, 605, 623,
      640, 658, 676, 693, 711, 728, 746, 764, 781, 799, 816, 834,
      851, 869, 886, 903, 921, 938, 956, 973, 990, 1008, 1025, 1042,
      1060, 1077, 1094, 1111, 1129, 1146, 1163, 1180, 1197, 1214, 1231, 1248,
      1265, 1282, 1299, 1316, 1333, 1350, 1367, 1384, 1400, 1417, 1434, 1451,
      1467, 1484, 1501, 1517, 1534, 1550, 1567, 1583, 1600, 1616, 1633, 1649,
      1665, 1682, 1698, 1714, 1731, 1747, 1763, 1779, 1795, 1811, 1827, 1843,
      1859, 1875, 1891, 1907, 1922, 1938, 1954, 1970, 1985, 2001, 2016, 2032,
      2047, 2063, 2078, 2094, 2109, 2124, 2140, 2155, 2170, 2185, 2200, 2215,
      2230, 2245, 2260, 2275, 2290, 2305, 2319, 2334, 2349, 2363, 2378, 2393,
      2407, 2422, 2436, 2450, 2465, 2479, 2493, 2507, 2521, 2535, 2549, 2563,
      2577, 2591, 2605, 2619, 2632, 2646, 2660, 2673, 2687, 2700, 2714, 2727,
      2740, 2754, 2767, 2780, 2793, 2806, 2819, 2832, 2845, 2858, 2870, 2883,
      2896, 2908, 2921, 2933, 2946, 2958, 2971, 2983, 2995, 3007, 3019, 3031,
      3043, 3055, 3067, 3079, 3091, 3102, 3114, 3126, 3137, 3149, 3160, 3171,
      3183, 3194, 3205, 3216, 3227, 3238, 3249, 3260, 3271, 3281, 3292, 3303,
      3313, 3324, 3334, 3344, 3355, 3365, 3375, 3385, 3395, 3405, 3415, 3425,
      3435, 3444, 3454, 3464, 3473, 3483, 3492, 3501, 3510, 3520, 3529, 3538,
      3547, 3556, 3564, 3573, 3582, 3591, 3599, 3608, 3616, 3624, 3633, 3641,
      3649, 3657, 3665, 3673, 3681, 3689, 3696, 3704, 3712, 3719, 3727, 3734,
      3741, 3749, 3756, 3763, 3770, 3777, 3784, 3791, 3797, 3804, 3810, 3817,
      3823, 3830, 3836, 3842, 3848, 3855, 3861, 3866, 3872, 3878, 3884, 3889,
      3895, 3901, 3906, 3911, 3917, 3922, 3927, 3932, 3937, 3942, 3947, 3951,
      3956, 3961, 3965, 3969, 3974, 3978, 3982, 3986, 3991, 3995, 3998, 4002,
      4006, 4010, 4013, 4017, 4020, 4024, 4027, 4030, 4033, 4036, 4039, 4042,
      4045, 4048, 4051, 4053, 4056, 4058, 4060, 4063, 4065, 4067, 4069, 4071,
      4073, 4075, 4077, 4078, 4080, 4081, 4083, 4084, 4086, 4087, 4088, 4089,
      4090, 4091, 4092, 4092, 4093, 4094, 4094, 4095, 4095, 4095, 4095, 4095,
      4096, 4095, 4095, 4095, 4095, 4095, 4094, 4094, 4093, 4092, 4092, 4091,
      4090, 4089, 4088, 4087, 4086, 4084, 4083, 4081, 4080, 4078, 4077, 4075,
      4073, 4071, 4069, 4067, 4065, 4063, 4060, 4058, 4056, 4053, 4051, 4048,
      4045, 4042, 4039, 4036, 4033, 4030, 4027, 4024, 4020, 4017, 4013, 4010,
      4006, 4002, 3998, 3995, 3991, 3986, 3982, 3978, 3974, 3969, 3965, 3961,
      3956, 3951, 3947, 3942, 3937, 3932, 3927, 3922, 3917, 3911, 3906, 3901,
      3895, 3889, 3884, 3878, 3872, 3866, 3861, 3855, 3848, 3842, 3836, 3830,
      3823, 3817, 3810, 3804, 3797, 3791, 3784, 3777, 3770, 3763, 3756, 3749,
      3741, 3734, 3727, 3719, 3712, 3704, 3696, 3689, 3681, 3673, 3665, 3657,
      3649, 3641, 3633, 3624, 3616, 3608, 3599, 3591, 3582, 3573, 3564, 3556,
      3547, 3538, 3529, 3520, 3510, 3501, 3492, 3483, 3473, 3464, 3454, 3444,
      3435, 3425, 3415, 3405, 3395, 3385, 3375, 3365, 3355, 3344, 3334, 3324,
      3313, 3303, 3292, 3281, 3271, 3260, 3249, 3238, 3227, 3216, 3205, 3194,
      3183, 3171, 3160, 3149, 3137, 3126, 3114, 3102, 3091, 3079, 3067, 3055,
      3043, 3031, 3019, 3007, 2995, 2983, 2971, 2958, 2946, 2933, 2921, 2908,
      2896, 2883, 2870, 2858, 2845, 2832, 2819, 2806, 2793, 2780, 2767, 2754,
      2740, 2727, 2714, 2700, 2687, 2673, 2660, 2646, 2632, 2619, 2605, 2591,
      2577, 2563, 2549, 2535, 2521, 2507, 2493, 2479, 2465, 2450, 2436, 2422,
      2407, 2393, 2378, 2363, 2349, 2334, 2319, 2305, 2290, 2275, 2260, 2245,
      2230, 2215, 2200, 2185, 2170, 2155, 2140, 2124, 2109, 2094, 2078, 2063,
      2047, 2032, 2016, 2001, 1985, 1970, 1954, 1938, 1922, 1907, 1891, 1875,
      1859, 1843, 1827, 1811, 1795, 1779, 1763, 1747, 1731, 1714, 1698, 1682,
      1665, 1649, 1633, 1616, 1600, 1583, 1567, 1550, 1534, 1517, 1501, 1484,
      1467, 1451, 1434, 1417, 1400, 1384, 1367, 1350, 1333, 1316, 1299, 1282,
      1265, 1248, 1231, 1214, 1197, 1180, 1163, 1146, 1129, 1111, 1094, 1077,
      1060, 1042, 1025, 1008, 990, 973, 956, 938, 921, 903, 886, 869,
      851, 834, 816, 799, 781, 764, 746, 728, 711, 693, 676, 658,
      640, 623, 605, 587, 570, 552, 534, 516, 499, 481, 463, 445,
      428, 410, 392, 374, 356, 339, 321, 303, 285, 267, 250, 232,
      214, 196, 178, 160, 142, 125, 107, 89, 71, 53, 35, 17,
      0, -18, -36, -54, -72, -90, -108, -126, -143, -161, -179, -197,
      -215, -233, -251, -268, -286, -304, -322, -340, -357, -375, -393, -411,
      -429, -446, -464, -482, -500, -517, -535, -553, -571, -588, -606, -624,
      -641, -659, -677, -694, -712, -729, -747, -765, -782, -800, -817, -835,
      -852, -870, -887, -904, -922, -939, -957, -974, -991, -1009, -1026, -1043,
      -1061, -1078, -1095, -1112, -1130, -1147, -1164, -1181, -1198, -1215, -1232, -1249,
      -1266, -1283, -1300, -1317, -1334, -1351, -1368, -1385, -1401, -1418, -1435, -1452,
      -1468, -1485, -1502, -1518, -1535, -1551, -1568, -1584, -1601, -1617, -1634, -1650,
      -1666, -1683, -1699, -1715, -1732, -1748, -1764, -1780, -1796, -1812, -1828, -1844,
      -1860, -1876, -1892, -1908, -1923, -1939, -1955, -1971, -1986, -2002, -2017, -2033,
      -2049, -2064, -2079, -2095, -2110, -2125, -2141, -2156, -2171, -2186, -2201, -2216,
      -2231, -2246, -2261, -2276, -2291, -2306, -2320, -2335, -2350, -2364, -2379, -2394,
      -2408, -2423, -2437, -2451, -2466, -2480, -2494, -2508, -2522, -2536, -2550, -2564,
      -2578, -2592, -2606, -2620, -2633, -2647, -2661, -2674, -2688, -2701, -2715, -2728,
      -2741, -2755, -2768, -2781, -2794, -2807, -2820, -2833, -2846, -2859, -2871, -2884,
      -2897, -2909, -2922, -2934, -2947, -2959, -2972, -2984, -2996, -3008, -3020, -3032,
      -3044, -3056, -3068, -3080, -3092, -3103, -3115, -3127, -3138, -3150, -3161, -3172,
      -3184, -3195, -3206, -3217, -3228, -3239, -3250, -3261, -3272, -3282, -3293, -3304,
      -3314, -3325, -3335, -3345, -3356, -3366, -3376, -3386, -3396, -3406, -3416, -3426,
      -3436, -3445, -3455, -3465, -3474, -3484, -3493, -3502, -3511, -3521, -3530, -3539,
      -3548, -3557, -3565, -3574, -3583, -3592, -3600, -3609, -3617, -3625, -3634, -3642,
      -3650, -3658, -3666, -3674, -3682, -3690, -3697, -3705, -3713, -3720, -3728, -3735,
      -3742, -3750, -3757, -3764, -3771, -3778, -3785, -3792, -3798, -3805, -3811, -3818,
      -3824, -3831, -3837, -3843, -3849, -3856, -3862, -3867, -3873, -3879, -3885, -3890,
      -3896, -3902, -3907, -3912, -3918, -3923, -3928, -3933, -3938, -3943, -3948, -3952,
      -3957, -3962, -3966, -3970, -3975, -3979, -3983, -3987, -3992, -3996, -3999, -4003,
      -4007, -4011, -4014, -4018, -4021, -4025, -4028, -4031, -4034, -4037, -4040, -4043,
      -4046, -4049, -4052, -4054, -4057, -4059, -4061, -4064, -4066, -4068, -4070, -4072,
      -4074, -4076, -4078, -4079, -4081, -4082, -4084, -4085, -4087, -4088, -4089, -4090,
      -4091, -4092, -4093, -4093, -4094, -4095, -4095, -4096, -4096, -4096, -4096, -4096,
      -4096, -4096, -4096, -4096, -4096, -4096, -4095, -4095, -4094, -4093, -4093, -4092,
      -4091, -4090, -4089, -4088, -4087, -4085, -4084, -4082, -4081, -4079, -4078, -4076,
      -4074, -4072, -4070, -4068, -4066, -4064, -4061, -4059, -4057, -4054, -4052, -4049,
      -4046, -4043, -4040, -4037, -4034, -4031, -4028, -4025, -4021, -4018, -4014, -4011,
      -4007, -4003, -3999, -3996, -3992, -3987, -3983, -3979, -3975, -3970, -3966, -3962,
      -3957, -3952, -3948, -3943, -3938, -3933, -3928, -3923, -3918, -3912, -3907, -3902,
      -3896, -3890, -3885, -3879, -3873, -3867, -3862, -3856, -3849, -3843, -3837, -3831,
      -3824, -3818, -3811, -3805, -3798, -3792, -3785, -3778, -3771, -3764, -3757, -3750,
      -3742, -3735, -3728, -3720, -3713, -3705, -3697, -3690, -3682, -3674, -3666, -3658,
      -3650, -3642, -3634, -3625, -3617, -3609, -3600, -3592, -3583, -3574, -3565, -3557,
      -3548, -3539, -3530, -3521, -3511, -3502, -3493, -3484, -3474, -3465, -3455, -3445,
      -3436, -3426, -3416, -3406, -3396, -3386, -3376, -3366, -3356, -3345, -3335, -3325,
      -3314, -3304, -3293, -3282, -3272, -3261, -3250, -3239, -3228, -3217, -3206, -3195,
      -3184, -3172, -3161, -3150, -3138, -3127, -3115, -3103, -3092, -3080, -3068, -3056,
      -3044, -3032, -3020, -3008, -2996, -2984, -2972, -2959, -2947, -2934, -2922, -2909,
      -2897, -2884, -2871, -2859, -2846, -2833, -2820, -2807, -2794, -2781, -2768, -2755,
      -2741, -2728, -2715, -2701, -2688, -2674, -2661, -2647, -2633, -2620, -2606, -2592,
      -2578, -2564, -2550, -2536, -2522, -2508, -2494, -2480, -2466, -2451, -2437, -2423,
      -2408, -2394, -2379, -2364, -2350, -2335, -2320, -2306, -2291, -2276, -2261, -2246,
      -2231, -2216, -2201, -2186, -2171, -2156, -2141, -2125, -2110, -2095, -2079, -2064,
      -2049, -2033, -2017, -2002, -1986, -1971, -1955, -1939, -1923, -1908, -1892, -1876,
      -1860, -1844, -1828, -1812, -1796, -1780, -1764, -1748, -1732, -1715, -1699, -1683,
      -1666, -1650, -1634, -1617, -1601, -1584, -1568, -1551, -1535, -1518, -1502, -1485,
      -1468, -1452, -1435, -1418, -1401, -1385, -1368, -1351, -1334, -1317, -1300, -1283,
      -1266, -1249, -1232, -1215, -1198, -1181, -1164, -1147, -1130, -1112, -1095, -1078,
      -1061, -1043, -1026, -1009, -991, -974, -957, -939, -922, -904, -887, -870,
      -852, -835, -817, -800, -782, -765, -747, -729, -712, -694, -677, -659,
      -641, -624, -606, -588, -571, -553, -535, -517, -500, -482, -464, -446,
      -429, -411, -393, -375, -357, -340, -322, -304, -286, -268, -251, -233,
      -215, -197, -179, -161, -143, -126, -108, -90, -72, -54, -36, -18 >>

\* cosTable[i] and sinTable[i] for an index inside the arrays; any other index
\* reads undefined, which arithmetic turns into NaN.
InTable(i) == i \in 0 .. (fullCircle - 1)
cosTable(i) == cosTableData[i + 1]
sinTable(i) == sinTableData[i + 1]

\* The tangent table: round(tan(a * PI / halfCircle) * 2^8) for a = 0 .. fullCircle/4 - 1.
tanTableData ==
    <<0, 1, 2, 3, 4, 6, 7, 8, 9, 10, 11, 12,
      13, 15, 16, 17, 18, 19, 20, 21, 22, 24, 25, 26,
      27, 28, 29, 30, 31, 33, 34, 35, 36, 37, 38, 39,
      41, 42, 43, 44, 45, 46, 47, 49, 50, 51, 52, 53,
      54, 56, 57, 58, 59, 60, 61, 63, 64, 65, 66, 67,
      69, 70, 71, 72, 73, 75, 76, 77, 78, 79, 81, 82,
      83, 84, 86, 87, 88, 89, 91, 92, 93, 94, 96, 97,
      98, 100, 101, 102, 103, 105, 106, 107, 109, 110, 111, 113,
      114, 115, 117, 118, 119, 121, 122, 123, 125, 126, 128, 129,
      130, 132, 133, 135, 136, 138, 139, 140, 142, 143, 145, 146,
      148, 149, 151, 152, 154, 155, 157, 158, 160, 162, 163, 165,
      166, 168, 169, 171, 173, 174, 176, 178, 179, 181, 183, 184,
      186, 188, 189, 191, 193, 195, 196, 198, 200, 202, 204, 205,
      207, 209, 211, 213, 215, 217, 219, 221, 223, 225, 226, 228,
      231, 233, 235, 237, 239, 241, 243, 245, 247, 249, 252, 254,
      256, 258, 261, 263, 265, 267, 270, 272, 275, 277, 279, 282,
      284, 287, 289, 292, 294, 297, 300, 302, 305, 308, 311, 313,
      316, 319, 322, 325, 328, 331, 334, 337, 340, 343, 346, 349,
      352, 356, 359, 362, 366, 369, 372, 376, 380, 383, 387, 390,
      394, 398, 402, 406, 410, 414, 418, 422, 426, 430, 435, 439,
      443, 448, 452, 457, 462, 467, 471, 476, 481, 487, 492, 497,
      502, 508, 513, 519, 525, 531, 537, 543, 549, 555, 562, 568,
      575, 582, 589, 596, 603, 610, 618, 626, 634, 642, 650, 658,
      667, 676, 685, 694, 703, 713, 723, 733, 743, 754, 765, 776,
      788, 800, 812, 824, 837, 851, 864, 878, 893, 908, 923, 939,
      955, 972, 990, 1008, 1027, 1046, 1066, 1087, 1109, 1131, 1155, 1179,
      1204, 1231, 1258, 1287, 1317, 1348, 1381, 1416, 1452, 1490, 1530, 1572,
      1616, 1663, 1713, 1766, 1822, 1881, 1945, 2012, 2085, 2163, 2247, 2338,
      2436, 2542, 2659, 2786, 2926, 3081, 3253, 3445, 3661, 3906, 4186, 4508,
      4885, 5330, 5863, 6516, 7331, 8379, 9776, 11732, 14666, 19556, 29335, 58671 >>

-----------------------------------------------------------------------------
(* The module's functions on angles, tables and elevations.                *)

\* v << s of JavaScript for 0 <= s < 32: v is wrapped to 32 bits, shifted, and the
\* result read as a signed 32-bit integer.
Shl32(v, s) ==
    IF s = 0 THEN v
    ELSE LET h == Pow2(31 - s)
             top == v \div h
             low == v % h
         IN  (low - (top % 2) * h) * Pow2(s - 1) * 2

\* Math.round(num / den) for den > 0: the nearest integer, a half rounding up.
Round(num, den) ==
    LET f == num \div den
        r == num % den
    IN  IF 2 * r >= den THEN f + 1 ELSE f

\* Math.abs
Abs(v) == IF v < 0 THEN -v ELSE v

\* cos(angle) and sin(angle)
cos(angle) == cosTable(mod(angle, fullCircle))
sin(angle) == sinTable(mod(angle, fullCircle))

\* The loop of findIndexOf on table[0 .. length - 1], kept here as the sequence
\* table[1 .. length], from the bounds low and high.
RECURSIVE findIndexOfFrom(_, _, _, _)
findIndexOfFromLow(val, table, low, high) ==
    IF high - low = 1
    THEN low
    ELSE LET mid == Shr(low + high, 1) IN
         IF table[mid + 1] = val THEN mid
         ELSE IF val < table[mid + 1] THEN findIndexOfFrom(val, table, low, mid)
         ELSE findIndexOfFrom(val, table, mid, high)
findIndexOfFrom(val, table, low, high) ==
    IF high - low = 1
    THEN IF table[high + 1] <= val THEN high ELSE low
    ELSE LET mid == Shr(low + high, 1) IN
         IF table[mid + 1] = val THEN mid
         ELSE IF val < table[mid + 1] THEN findIndexOfFrom(val, table, low, mid)
         ELSE findIndexOfFrom(val, table, mid, high)

findIndexOf(val, table) == findIndexOfFrom(val, table, 0, Len(table) - 1)

\* angleFromCoordinates(x, y)
angleFromCoordinates(x, y) ==
    IF x = 0 THEN (IF y < 0 THEN south ELSE north)
    ELSE LET absX == Abs(x)
             absY == Abs(y)
         IN  IF absY > Shl32(absX, 8) THEN (IF y > 0 THEN north ELSE south)
             ELSE LET ratio == Round(Shl32(absY, 8), absX)
                      angle == findIndexOf(ratio, tanTableData)
                  IN  IF x > 0
                      THEN (IF y > 0 THEN angle ELSE fullCircle - angle)
                      ELSE (IF y > 0 THEN halfCircle - angle ELSE halfCircle + angle)

\* angleSub(a, b)
angleSub(a, b) == mod(a - b, fullCircle)

\* distance(x1, y1, x2, y2)
distance(x1, y1, x2, y2) ==
    LET dx == IF x2 > x1 THEN x2 - x1 ELSE x1 - x2
        dy == IF y2 > y1 THEN y2 - y1 ELSE y1 - y2
        max == IF dx > dy THEN dx ELSE dy
        min == IF dx > dy THEN dy ELSE dx
    IN  Shr(Shl(max, 8) + Shl(max, 3) - Shl(max, 4) - Shl(max, 1)
            + Shl(min, 7) - Shl(min, 5) + Shl(min, 3) - Shl(min, 1), 8)

\* angleToAlgebraic(angle)
angleToAlgebraic(angle) == IF angle > halfCircle THEN angle - fullCircle ELSE angle

\* linearInterpolation: the midpoints of the elevations and of the screen rows.
linearInterpolation(yMountain1, yMountain2, xScreen1, xScreen2, yScreen1, yScreen2, bisections) ==
    << Shr(yMountain1 + yMountain2, 1), Shr(yScreen1 + yScreen2, 1) >>

\* fractalInterpolation; v & 0xFF is v % 256, and a shift count is taken modulo 32.
fractalInterpolationByRows(yMountain1, yMountain2, xScreen1, xScreen2, yScreen1, yScreen2, bisections) ==
    LET displacementAttenuationPower == 2
        sum == (yScreen1 % 256) + (yScreen2 % 256)
        absoluteDisplacement ==
            Shl32(1, (bitsBetweenTops - bisections - displacementAttenuationPower) % 32)
        screenDisplacement ==
            Shr(IF xScreen2 > xScreen1 THEN xScreen2 - xScreen1 ELSE xScreen1 - xScreen2,
                (bisections + displacementAttenuationPower) % 32)
    IN  IF sum > 255
        THEN << Shr(yMountain1 + yMountain2, 1), Shr(yScreen1 + yScreen2, 1) >>
        ELSE IF (sum \div 128) % 2 = 1
        THEN << Shr(yMountain1 + yMountain2, 1) - absoluteDisplacement,
                Shr(yScreen1 + yScreen2, 1) - screenDisplacement >>
        ELSE << Shr(yMountain1 + yMountain2, 1) + absoluteDisplacement,
                Shr(yScreen1 + yScreen2, 1) + screenDisplacement >>
fractalInterpolation(yMountain1, yMountain2, xScreen1, xScreen2, yScreen1, yScreen2, bisections) ==
    LET displacementAttenuationPower == 2
        sum == (yMountain1 % 256) + (yMountain2 % 256)
        absoluteDisplacement ==
            Shl32(1, (bitsBetweenTops - bisections - displacementAttenuationPower) % 32)
        screenDisplacement ==
            Shr(IF xScreen2 > xScreen1 THEN xScreen2 - xScreen1 ELSE xScreen1 - xScreen2,
                (bisections + displacementAttenuationPower) % 32)
    IN  IF sum > 255
        THEN << Shr(yMountain1 + yMountain2, 1), Shr(yScreen1 + yScreen2, 1) >>
        ELSE IF (sum \div 128) % 2 = 1
        THEN << Shr(yMountain1 + yMountain2, 1) - absoluteDisplacement,
                Shr(yScreen1 + yScreen2, 1) - screenDisplacement >>
        ELSE << Shr(yMountain1 + yMountain2, 1) + absoluteDisplacement,
                Shr(yScreen1 + yScreen2, 1) + screenDisplacement >>

\* ---- calls of the functions; a behaviour makes one call

\* No function of the module has been called.
NoFnCall == [fn |-> "none"]

MaxCoord == 6       \* small coordinates range over -MaxCoord .. MaxCoord
MaxTableLen == 4    \* longest table searched, the regression test's aside
MaxTableVal == 3    \* entries of the searched tables range over 0 .. MaxTableVal

\* Coordinates passed to angleFromCoordinates: around the origin and the axes, of
\* the size of the tables' values and of the ship's coordinates, and where << 8
\* leaves 32 bits.
AngleCoords ==
    (-MaxCoord .. MaxCoord)
        \cup {-Pow2(bitsBetweenTops), Pow2(bitsBetweenTops), 1 - Pow2(coordinateBits),
              Pow2(coordinateBits) - 1, Pow2(23), Pow2(24) + 1}

\* A call angleFromCoordinates(x, y).
AngleFromCoordinates ==
    /\ call = NoFnCall
    /\ \E x \in AngleCoords, y \in AngleCoords :
          call' = [fn |-> "angleFromCoordinates", x |-> x, y |-> y,
                   result |-> angleFromCoordinates(x, y)]
    /\ UNCHANGED <<prevCall, colVars, mapVars, shipVars, loopVars>>

\* A call angleFromCoordinates(cos(a), sin(a)) for an angle a of the tables.
AngleFromCosSin ==
    /\ call = NoFnCall
    /\ \E a \in 0 .. (fullCircle - 1) :
          call' = [fn |-> "angleFromCosSin", a |-> a, x |-> cos(a), y |-> sin(a),
                   result |-> angleFromCoordinates(cos(a), sin(a))]
    /\ UNCHANGED <<prevCall, colVars, mapVars, shipVars, loopVars>>

\* The table and the expected results of the findIndexOf regression test, for
\* the queries 0 .. 19.
RegressionTable == <<3, 7, 15, 15, 16, 18>>
RegressionExpected ==
    <<0, 0, 0, 0, 0, 0, 0, 1, 1, 1, 1, 1, 1, 1, 1, 2, 4, 4, 5, 5, 5, 5>>
RegressionQueries == 0 .. 19

\* The tables findIndexOf is given: in order, with at least two entries.
InOrder(t) == \A i \in 1 .. (Len(t) - 1) : t[i] <= t[i + 1]
Tables ==
    {t \in UNION {[1 .. n -> 0 .. MaxTableVal] : n \in 2 .. MaxTableLen} : InOrder(t)}
        \cup {RegressionTable}
Queries == (-1 .. (MaxTableVal + 1)) \cup RegressionQueries

\* A call findIndexOf(val, table).
FindIndexOf ==
    /\ call = NoFnCall
    /\ \E table \in Tables, val \in Queries :
          call' = [fn |-> "findIndexOf", val |-> val, table |-> table,
                   result |-> findIndexOf(val, table)]
    /\ UNCHANGED <<prevCall, colVars, mapVars, shipVars, loopVars>>

\* Elevations whose low bytes add up to a sum with bit 7 clear, with bit 7 set, and
\* above 255; -3 is an elevation a displaced midpoint can have.
Elevations == {0, 60, 130, 200, -3}
ScreenColumns1 == {0, 40}
ScreenColumns2 == {-8, 44, 48}
ScreenRows1 == {10}
ScreenRows2 == {25, -7}
\* Bisection depths: the first ones and the deepest one draw() reaches (a segment
\* spans fewer than fullCircle columns), where the displacement
\* 1 << (bitsBetweenTops - depth - 2) shifts by 0; and the depth where it shifts by -1.
DepthsDrawn == {0, 1, bitsBetweenTops - 2}
DepthsAny == DepthsDrawn \cup {bitsBetweenTops - 1}

\* The call [yMountain1, .., bisections] of fractalInterpolation, with its result.
FractalCall(ym1, ym2, x1, x2, y1, y2, b) ==
    [fn |-> "fractalInterpolation", yMountain1 |-> ym1, yMountain2 |-> ym2,
     xScreen1 |-> x1, xScreen2 |-> x2, yScreen1 |-> y1, yScreen2 |-> y2,
     bisections |-> b, result |-> fractalInterpolation(ym1, ym2, x1, x2, y1, y2, b)]

\* The calls whose displacement the model's integers hold: subtracting 1 << -1,
\* which is -2^31, from a midpoint gives a displacement of +2^31, beyond them.
Fits(ym1, ym2, b) ==
    \/ (bitsBetweenTops - b - 2) % 32 # 31
    \/ (ym1 % 256) + (ym2 % 256) > 255
    \/ (((ym1 % 256) + (ym2 % 256)) \div 128) % 2 = 0

\* One call of fractalInterpolation.
FractalInterpolation ==
    /\ call = NoFnCall
    /\ \E ym1 \in Elevations, ym2 \in Elevations, x1 \in ScreenColumns1,
          x2 \in ScreenColumns2, y1 \in ScreenRows1, y2 \in ScreenRows2, b \in DepthsAny :
          /\ Fits(ym1, ym2, b)
          /\ call' = FractalCall(ym1, ym2, x1, x2, y1, y2, b)
    /\ UNCHANGED <<prevCall, colVars, mapVars, shipVars, loopVars>>

\* A call of fractalInterpolation from the renderer, after at most one other.
FractalInterpolationAgain ==
    /\ prevCall = NoFnCall
    /\ \E ym1 \in Elevations \ {60}, ym2 \in Elevations \ {60}, x1 \in ScreenColumns1,
          x2 \in ScreenColumns2, y1 \in ScreenRows1, y2 \in ScreenRows2, b \in DepthsDrawn :
          call' = FractalCall(ym1, ym2, x1, x2, y1, y2, b)
    /\ prevCall' = call
    /\ UNCHANGED <<colVars, mapVars, shipVars, loopVars>>

-----------------------------------------------------------------------------
(* Valkyrie: the integration step and its move observers.                  *)

NumMoveHandlers == 4   \* distinct move handlers that may be registered
MaxListeners == 3      \* registrations held at once
MaxMoves == 2          \* move() calls per behaviour
MaxThrust == 300       \* thrusts range over -MaxThrust .. MaxThrust
MaxRoll == 7           \* rolls and roll-to-angle factors range up to MaxRoll

MoveHandlerIds == 1 .. NumMoveHandlers

\* What a move handler does to the handler list when it is invoked. Handlers 1, 2
\* and 3 are the program's (OverheadMap, Compass, Viewport): they only read the
\* ship. Handler 4 is a one-shot listener that removes itself; a handler numbered
\* h > 4 removes handler h - 4.
Removes(h) == IF h <= 3 THEN 0 ELSE IF h = 4 THEN 4 ELSE h - 4

\* v wrapped to a signed integer of the given number of bits.
ToSigned(v, bits) == ((v + Pow2(bits - 1)) % Pow2(bits)) - Pow2(bits - 1)

\* (thrust * c1 * c2) >> bitsBetweenTops >> bitsBetweenTops, where >> first wraps
\* its left operand to 32 bits. With c1 * c2 = Ah * 2^12 + Al the product is
\* W * 2^12 + r, 0 <= r < 2^12, for W as below, so the product wrapped to 32 bits
\* and shifted by 12 is W wrapped to 20 bits.
ShiftedProduct(thrust, c1, c2) ==
    LET A == c1 * c2
        Ah == A \div Pow2(bitsBetweenTops)
        Al == A % Pow2(bitsBetweenTops)
        V == thrust * Al
        W == thrust * Ah + (V \div Pow2(bitsBetweenTops))
    IN  Shr(ToSigned(W, 32 - bitsBetweenTops), bitsBetweenTops)

\* this.#moveHandlers.forEach(handler => handler(this)) from the 1-based position k:
\* forEach visits the positions below the length the array had when it started,
\* and skips a position the array no longer has when it gets there.
RECURSIVE forEachMove(_, _, _, _, _)
forEachMove(handlers, k, len, seen, log) ==
    IF k > len THEN [handlers |-> handlers, log |-> log]
    ELSE IF k > Len(handlers) THEN forEachMove(handlers, k + 1, len, seen, log)
    ELSE LET h == handlers[k] IN
         forEachMove(IF Removes(h) = 0 THEN handlers
                     ELSE removeListener(handlers, Removes(h)),
                     k + 1, len, seen, Append(log, <<h, seen>>))

\* The ship after the assignments of move().
moved(s) ==
    LET heading == mod(s.heading + s.roll * s.rollToAngle, fullCircle)
        x == mod(s.x + (IF InTable(s.pitch)
                        THEN ShiftedProduct(s.thrust, cosTable(heading), cosTable(s.pitch))
                        ELSE 0),
                 Pow2(coordinateBits))
        y == mod(s.y - (IF InTable(s.pitch)
                        THEN ShiftedProduct(s.thrust, sinTable(heading), cosTable(s.pitch))
                        ELSE 0),
                 Pow2(coordinateBits))
        z == clamp(s.z + (IF InTable(s.pitch)
                          THEN Shr(s.thrust * sinTable(s.pitch), bitsBetweenTops)
                          ELSE 0),
                   1, Pow2(coordinateBits))
    IN  [s EXCEPT !.heading = heading, !.x = x, !.y = y, !.z = z]

\* The effect of Valkyrie.move() on the ship variables.
move ==
    LET s == moved(ship)
        r == forEachMove(moveHandlers, 1, Len(moveHandlers), s, << >>)
    IN  /\ ship' = s
        /\ moveHandlers' = r.handlers
        /\ moveCalls' = r.log
        /\ handlersAtMove' = moveHandlers
        /\ shipAtMove' = ship
        /\ moves' = moves + 1

\* Valkyrie.move()
Move ==
    /\ moves < MaxMoves
    /\ move
    /\ UNCHANGED <<colVars, mapVars, loopVars, fnVars>>

\* Valkyrie.addMoveListener(handler)
AddMoveListener(h) ==
    /\ Len(moveHandlers) < MaxListeners
    /\ moveHandlers' = Append(moveHandlers, h)
    /\ UNCHANGED <<ship, moveCalls, handlersAtMove, shipAtMove, moves>>
    /\ UNCHANGED <<colVars, mapVars, loopVars, fnVars>>

\* Valkyrie.removeMoveListener(handler)
RemoveMoveListener(h) ==
    /\ moveHandlers' = removeListener(moveHandlers, h)
    /\ UNCHANGED <<ship, moveCalls, handlersAtMove, shipAtMove, moves>>
    /\ UNCHANGED <<colVars, mapVars, loopVars, fnVars>>

-----------------------------------------------------------------------------
(* The game loop.                                                          *)

MaxFrames == 2      \* ticks per behaviour

-----------------------------------------------------------------------------
(* Viewport.draw(): the projection of the summits, the interpolation       *)
(* between them and the frame's statements in order.                       *)

\* The screen column and row #computeScreenCoordinatesFor(x, y, memo) stores for
\* the ship s, the grid m of size n and a viewport of w columns.
computeScreenCoordinatesFor(s, m, n, w, x, y) ==
    LET dist == distance(s.x, s.y, Shl(x, bitsBetweenTops), Shl(y, bitsBetweenTops))
        absAngle == angleFromCoordinates(Shl(x, bitsBetweenTops) - s.x,
                                         s.y - Shl(y, bitsBetweenTops))
        azimuth == angleToAlgebraic(angleSub(s.heading, absAngle))
        screenCol == Shr(w, 1) - Shr(azimuth, viewPortScreenPixelPowerOfTwo)
        altitude == angleToAlgebraic(angleFromCoordinates(dist, MapGet(m, n, x, y) - s.z))
        screenRow == viewportVerticalOffset + Shr(altitude, viewPortScreenPixelPowerOfTwo)
    IN  [x |-> screenCol, y |-> screenRow]

\* The test of the early exit of #interpolate.
interpolateExits(w, x1, x2, y2) == (x1 < 0 \/ x1 >= w) /\ (x2 < 0 \/ y2 >= w)

Invocation(yMountain1, yMountain2, x1, x2, y1, y2, bisections, exit, column) ==
    [yMountain1 |-> yMountain1, yMountain2 |-> yMountain2,
     x1 |-> x1, x2 |-> x2, y1 |-> y1, y2 |-> y2, bisections |-> bisections,
     exit |-> exit, column |-> column]

\* The bisections argument of the two recursive calls of #interpolate.
skippedBisections(bisections) == bisections + 2
nextBisections(bisections) == bisections + 1

\* #interpolate(yMountain1, .., bisections) with fractalInterpolation on a viewport
\* of w columns: the #drawMountainColumn calls it makes, in order, and its
\* invocations, itself first.
RECURSIVE interpolate(_, _, _, _, _, _, _, _)
interpolate(w, yMountain1, yMountain2, x1, x2, y1, y2, bisections) ==
    IF interpolateExits(w, x1, x2, y2)
    THEN [calls |-> << >>,
          log |-> << Invocation(yMountain1, yMountain2, x1, x2, y1, y2, bisections, TRUE, FALSE) >>]
    ELSE LET midX == Shr(x1 + x2, 1) IN
         IF midX # x1 /\ midX # x2
         THEN LET mid == fractalInterpolation(yMountain1, yMountain2, x1, x2, y1, y2,
                                              bisections)
                  midMountainY == mid[1]
                  midScreenY == mid[2]
                  left == interpolate(w, yMountain1, midMountainY, x1, midX, y1,
                                      midScreenY, nextBisections(bisections))
                  right == interpolate(w, midMountainY, yMountain2, midX, x2,
                                       midScreenY, y2, nextBisections(bisections))
              IN  [calls |-> << [x |-> midX, top |-> midScreenY] >>
                             \o left.calls \o right.calls,
                   log |-> << Invocation(yMountain1, yMountain2, x1, x2, y1, y2, bisections, FALSE, TRUE) >>
                           \o left.log \o right.log]
         ELSE [calls |-> << >>,
               log |-> << Invocation(yMountain1, yMountain2, x1, x2, y1, y2, bisections, FALSE, FALSE) >>]

\* The part of the state #drawMountainColumn works on.
ColState == [th |-> topHeights, drawn |-> drawn, submitted |-> submitted,
             mountainDraws |-> mountainDraws, lastCall |-> lastCall]

\* The candidate tops among the calls that fall on column c, in order.
topsOf(calls, c) ==
    LET sel == SelectSeq(calls, LAMBDA k : k.x = c)
    IN  [i \in 1 .. Len(sel) |-> sel[i].top]

\* Column c after the #drawMountainColumn calls with the k-th and later tops.
RECURSIVE columnAfter(_, _, _, _, _)
columnAfter(w, c, col, tops, k) ==
    IF k > Len(tops) THEN col
    ELSE LET r == drawMountainColumn(c :> col.th, w, c, tops[k])
         IN  columnAfter(w, c,
                         [th |-> r.th[c],
                          mountainDraws |-> col.mountainDraws + MountainDrawsOf(r.out),
                          out |-> r.out, before |-> col.th],
                         tops, k + 1)

\* The #drawMountainColumn calls, in order, on a viewport of w columns. A call
\* changes its own column only, so the columns are worked out one by one.
drawColumns(C, w, calls) ==
    LET after == [c \in 0 .. (w - 1) |->
                     columnAfter(w, c, [th |-> C.th[c],
                                        mountainDraws |-> C.mountainDraws[c],
                                        out |-> << >>, before |-> 0],
                                 topsOf(calls, c), 1)]
        last == calls[Len(calls)]
        inside == last.x >= 0 /\ last.x < w
    IN  [th |-> [c \in 0 .. (w - 1) |-> after[c].th],
         drawn |-> IF calls = << >> THEN C.drawn
                   ELSE IF inside THEN after[last.x].out ELSE << >>,
         submitted |-> [c \in 0 .. (w - 1) |-> C.submitted[c] \o topsOf(calls, c)],
         mountainDraws |-> [c \in 0 .. (w - 1) |-> after[c].mountainDraws],
         lastCall |-> IF calls = << >> THEN C.lastCall
                      ELSE [x |-> last.x, top |-> last.top,
                            before |-> IF inside THEN after[last.x].before ELSE 0]]

\* #drawMountainColumn(xScreen, mountainTop) on a viewport of w columns.
drawColumn(C, w, xScreen, mountainTop) ==
    drawColumns(C, w, << [x |-> xScreen, top |-> mountainTop] >>)

CommitColumns(C) ==
    /\ topHeights' = C.th
    /\ drawn' = C.drawn
    /\ submitted' = C.submitted
    /\ mountainDraws' = C.mountainDraws
    /\ lastCall' = C.lastCall

\* A statement of draw() on one or two cells of the map.
Statement(op, xMap1, yMap1, xMap2, yMap2) ==
    [op |-> op, xMap1 |-> xMap1, yMap1 |-> yMap1, xMap2 |-> xMap2, yMap2 |-> yMap2]

RECURSIVE Concat(_)
Concat(seqs) == IF seqs = << >> THEN << >> ELSE Head(seqs) \o Concat(Tail(seqs))

\* The iterations of for (let i = -dist; i <= dist; i++).
projectionsShort(dist) == 2 * dist
projections(dist) == 2 * dist + 1

\* The body of the loop of draw() for one dist: the projections of the summits of
\* the square at this distance, the interpolations from the previous square and
\* along the new one, and the summits themselves.
ringStatements(xMap, yMap, dist) ==
    Concat([k \in 1 .. projections(dist) |->
               LET i == k - dist - 1 IN
               << Statement("compute", xMap - dist, yMap + i, xMap - dist, yMap + i),
                  Statement("compute", xMap + dist, yMap + i, xMap + dist, yMap + i),
                  Statement("compute", xMap + i, yMap - dist, xMap + i, yMap - dist),
                  Statement("compute", xMap + i, yMap + dist, xMap + i, yMap + dist) >>])
    \o Concat([k \in 1 .. (2 * dist - 1) |->
               LET i == k - dist IN
               << Statement("interpolate", xMap - dist + 1, yMap + i, xMap - dist, yMap + i),
                  Statement("interpolate", xMap + dist - 1, yMap + i, xMap + dist, yMap + i),
                  Statement("interpolate", xMap + i, yMap - dist + 1, xMap + i, yMap - dist),
                  Statement("interpolate", xMap + i, yMap + dist - 1, xMap + i, yMap + dist) >>])
    \o Concat([k \in 1 .. (2 * dist) |->
               LET i == k - dist - 1 IN
               << Statement("interpolate", xMap - dist, yMap + i, xMap - dist, yMap + i + 1),
                  Statement("interpolate", xMap + dist, yMap + i, xMap + dist, yMap + i + 1),
                  Statement("interpolate", xMap + i, yMap - dist, xMap + i + 1, yMap - dist),
                  Statement("interpolate", xMap + i, yMap + dist, xMap + i + 1, yMap + dist) >>])
    \o Concat([k \in 1 .. (2 * dist + 1) |->
               LET i == k - dist - 1 IN
               << Statement("draw", xMap - dist, yMap + i, xMap - dist, yMap + i),
                  Statement("draw", xMap + dist, yMap + i, xMap + dist, yMap + i),
                  Statement("draw", xMap + i, yMap - dist, xMap + i, yMap - dist),
                  Statement("draw", xMap + i, yMap + dist, xMap + i, yMap + dist) >>])

\* The statements of draw() after the buffer and the memo are reset, for a ship
\* over the cell (xMap, yMap).
drawStatements(xMap, yMap) ==
    << Statement("compute", xMap, yMap, xMap, yMap) >>
    \o Concat([dist \in 1 .. (viewDistance - 1) |-> ringStatements(xMap, yMap, dist)])

\* draw() up to const memo = [], for the ship s.
draw(s) ==
    /\ topHeights' = clearedTopHeights(width)
    /\ drawn' = << >>
    /\ submitted' = NoColumns(width)
    /\ mountainDraws' = [c \in Columns |-> 0]
    /\ lastCall' = NoCall
    /\ memo' = newMemo(memo)
    /\ agenda' = drawStatements(Shr(s.x, bitsBetweenTops), Shr(s.y, bitsBetweenTops))
    /\ interpolated' = << >>
    /\ framesDrawn' = framesDrawn + 1
    /\ UNCHANGED width

\* map.generate() has returned.
Generated == stack = << >> /\ budget = 0

\* The move listeners of the program in registration order: OverheadMap, Compass,
\* Viewport.
ProgramListeners == <<1, 2, 3>>
Listening(h) == \E i \in DOMAIN moveHandlers : moveHandlers[i] = h
CompassListening == Listening(ProgramListeners[2])
ViewportListening == Listening(ProgramListeners[3])

\* new Compass(compassEl, ship), after map.generate(): it listens to the ship.
NewCompass ==
    /\ Generated /\ ~CompassListening
    /\ moveHandlers' = Append(moveHandlers, ProgramListeners[2])
    /\ UNCHANGED <<ship, moveCalls, handlersAtMove, shipAtMove, moves>>
    /\ UNCHANGED <<colVars, mapVars, loopVars, fnVars>>

\* new Viewport(..): its fields are set and it triggers the first rendering.
NewViewport ==
    /\ Generated /\ CompassListening /\ framesDrawn = 0
    /\ draw(ship)
    /\ UNCHANGED <<mapVars, shipVars, loopVars, fnVars>>

\* gameLoop(): a call that finds rendering set only counts the frame; otherwise
\* move() runs the listeners, the last of which, the Viewport's, starts draw().
\* rendering is reset when draw() has returned.
GameLoop ==
    /\ frame < MaxFrames
    /\ frame' = frame + 1
    /\ IF rendering
       THEN UNCHANGED <<rendering, shipVars, colVars>>
       ELSE move /\ rendering' = TRUE /\ draw(moved(ship))
    /\ UNCHANGED <<mapVars, fnVars>>

\* rendering when the statements left of the draw() in progress are the given
\* ones: gameLoop() clears it once move(), and with it draw(), has returned; the
\* constructor's draw() finds it clear and leaves it so.
renderingAfter(left) == rendering /\ left # << >>

\* The listeners of the ship after a statement of draw(): when the constructor's
\* draw() has returned the Viewport starts listening to the ship.
listenersAfter(left) ==
    IF left = << >> /\ ~ViewportListening
    THEN Append(moveHandlers, ProgramListeners[3])
    ELSE moveHandlers

\* A statement of the draw() in progress has run.
Ran ==
    /\ agenda' = Tail(agenda)
    /\ rendering' = renderingAfter(Tail(agenda))
    /\ moveHandlers' = listenersAfter(Tail(agenda))
    /\ UNCHANGED <<ship, moveCalls, handlersAtMove, shipAtMove, moves>>
    /\ UNCHANGED <<width, framesDrawn, frame, timer, mapVars, fnVars>>

\* this.#computeScreenCoordinatesFor(x, y, memo)
ComputeScreenCoordinatesFor ==
    /\ agenda # << >> /\ Head(agenda).op = "compute"
    /\ LET st == Head(agenda) IN
       memo' = (<<st.xMap1, st.yMap1>> :>
                   computeScreenCoordinatesFor(ship, map, size, width, st.xMap1, st.yMap1))
               @@ memo
    /\ Ran
    /\ UNCHANGED <<topHeights, drawn, submitted, mountainDraws, lastCall, interpolated>>

\* this.#interpolateFromMemo(memo, xMap1, yMap1, xMap2, yMap2)
InterpolateFromMemo ==
    /\ agenda # << >> /\ Head(agenda).op = "interpolate"
    /\ LET st == Head(agenda)
           m1 == memo[<<st.xMap1, st.yMap1>>]
           m2 == memo[<<st.xMap2, st.yMap2>>]
           r == interpolate(width, MapGet(map, size, st.xMap1, st.yMap1),
                            MapGet(map, size, st.xMap2, st.yMap2),
                            m1.x, m2.x, m1.y, m2.y, 0)
       IN  /\ CommitColumns(drawColumns(ColState, width, r.calls))
           /\ interpolated' = r.log
    /\ Ran
    /\ UNCHANGED memo

\* this.#drawMountainColumnFromMemo(memo, xMap, yMap)
DrawMountainColumnFromMemo ==
    /\ agenda # << >> /\ Head(agenda).op = "draw"
    /\ LET m == memo[<<Head(agenda).xMap1, Head(agenda).yMap1>>] IN
       CommitColumns(drawColumn(ColState, width, m.x, m.y))
    /\ Ran
    /\ UNCHANGED <<memo, interpolated>>

-----------------------------------------------------------------------------
(* Initial states and specifications.                                      *)

\* A Viewport of w columns that has drawn nothing.
ViewportInit(w) ==
    /\ width = w
    /\ topHeights = [c \in 0 .. (w - 1) |-> -1]
    /\ drawn = << >>
    /\ submitted = NoColumns(w)
    /\ mountainDraws = [c \in 0 .. (w - 1) |-> 0]
    /\ lastCall = NoCall
    /\ memo = EmptyMemo
    /\ agenda = << >>
    /\ interpolated = << >>
    /\ framesDrawn = 0

\* The Viewport at the start of a frame.
ColInit == ViewportInit(ViewWidth)

\* new Map(n), with the given handlers registered and the given random stream.
MapInit(n, handlers, stream, calls) ==
    /\ size = n
    /\ map = NewMap(n)
    /\ changeHandlers = handlers
    /\ notified = << >>
    /\ setLog = << >>
    /\ prevMap = NewMap(n)
    /\ prevChange = handlers
    /\ lastOp = [op |-> "none"]
    /\ notifyCount = [h \in HandlerIds |-> 0]
    /\ writes = NewMap(n)
    /\ stack = << >>
    /\ rnd = stream
    /\ draws = 0
    /\ budget = calls

Streams == [1 .. RandPeriod -> 0 .. (RandDen - 1)]
ZeroStream == [i \in 1 .. RandPeriod |-> 0]
MixedStream == [i \in 1 .. RandPeriod |-> (i * (RandDen - 1)) % RandDen]

\* new Valkyrie(x, y, z, thrust, heading, pitch, roll, rollToAngle)
Valkyrie(x, y, z, thrust, heading, pitch, roll, rollToAngle) ==
    [x |-> x, y |-> y, z |-> z, thrust |-> thrust, heading |-> heading,
     pitch |-> pitch, roll |-> roll, rollToAngle |-> rollToAngle]

\* The ship the program creates.
ProgramShip ==
    Valkyrie(Shr(Pow2(coordinateBits), 1), Shr(Pow2(coordinateBits), 1), maxHeight,
             defaultThrust, north, 0, 0, 1)

ShipInit(s, handlers) ==
    /\ ship = s
    /\ moveHandlers = handlers
    /\ moveCalls = << >>
    /\ handlersAtMove = << >>
    /\ shipAtMove = s
    /\ moves = 0

LoopInit == frame = 0 /\ rendering = FALSE /\ timer = "waiting"

FnInit == call = NoFnCall /\ prevCall = NoFnCall

\* The program when the page has loaded: the map and the ship are constructed and
\* the OverheadMap listens to both. The page-load handler then runs map.generate()
\* to completion, constructs the Compass and the Viewport, which draws the first
\* frame, and starts the timer, whose ticks run gameLoop().
ProgramInit(s) ==
    /\ ViewportInit(viewportWidth)
    /\ \E stream \in {ZeroStream, MixedStream} : MapInit(mapSize, <<1>>, stream, 1)
    /\ ShipInit(s, <<ProgramListeners[1]>>)
    /\ LoopInit /\ FnInit
Init == ProgramInit(ProgramShip)
TimerStarted == Generated /\ ViewportListening

\* A tick's move and render are in flight: gameLoop() has been entered and the
\* draw() its move() started has not returned.
TickInFlight == frame > 0 /\ agenda # << >>

\* The interval of setInterval(gameLoop, tick) has elapsed. The callback is due:
\* it waits for the script to be idle, so a request made while a tick is in
\* flight is late. One callback at most waits.
TimerDue ==
    /\ TimerStarted /\ timer = "waiting" /\ frame < MaxFrames
    /\ timer' = IF TickInFlight THEN "late" ELSE "due"
    /\ UNCHANGED <<frame, rendering, colVars, mapVars, shipVars, fnVars>>

\* The timer's callback: the script is idle and the callback that is due runs
\* gameLoop().
Tick ==
    /\ TimerStarted /\ timer # "waiting" /\ agenda = << >>
    /\ GameLoop
    /\ timer' = "waiting"
Next ==
    \/ Generate \/ DiamondStep \/ SquareStep
    \/ NewCompass
    \/ NewViewport
    \/ TimerDue
    \/ Tick
    \/ ComputeScreenCoordinatesFor
    \/ InterpolateFromMemo
    \/ DrawMountainColumnFromMemo
Spec == Init /\ [][Next]_vars

\* A Map that takes no part in a specification: the smallest grid, never touched.
IdleMap == MapInit(2, <<1>>, ZeroStream, 0)

\* One frame of the Viewport: the buffer is reset, then columns are submitted.
InitColumn ==
    /\ ColInit /\ IdleMap /\ ShipInit(ProgramShip, ProgramListeners) /\ LoopInit /\ FnInit
NextColumn == DrawBegin \/ SubmitColumn
SpecColumn == InitColumn /\ [][NextColumn]_vars

\* The Map API on small grids.
InitMap ==
    /\ ColInit /\ ShipInit(ProgramShip, ProgramListeners) /\ LoopInit /\ FnInit
    /\ \E n \in 2 .. MaxMapSize, handlers \in {<< >>, <<1>>, <<2, 1, 2>>} :
          MapInit(n, handlers, MixedStream, MaxCalls)
NextMap ==
    \/ \E h \in HandlerIds : AddChangeListener(h)
    \/ \E h \in HandlerIds : RemoveChangeListener(h)
    \/ \E p \in SetPoints, num \in ValNums : Set(p[1], p[2], num)
    \/ GenerateWestToEastAndNorthToSouthSlope
    \/ GenerateWestToEastSlope
    \/ Generate
    \/ DiamondStep
    \/ SquareStep
SpecMap == InitMap /\ [][NextMap]_vars

\* One generate() on a grid of 2, 4, .. mapSize cells a side.
GenerateSizes == {Pow2(k) : k \in 1 .. mapCoordinateBits}
InitGenerate ==
    /\ ColInit /\ ShipInit(ProgramShip, ProgramListeners) /\ LoopInit /\ FnInit
    /\ \E n \in GenerateSizes, handlers \in {<<1>>, <<1, 2>>}, stream \in Streams :
          MapInit(n, handlers, stream, 1)
NextGenerate == Generate \/ DiamondStep \/ SquareStep
SpecGenerate == InitGenerate /\ [][NextGenerate]_vars

\* The ship from any constructor arguments, moved.
ShipXs == {-1, Shr(Pow2(coordinateBits), 1), Pow2(coordinateBits) - 1}
ShipYs == {0, Shr(Pow2(coordinateBits), 1)}
ShipZs == {-1, maxHeight, Pow2(coordinateBits)}
Headings == {east, north, halfCircle + 5, fullCircle - 1, fullCircle + 3}
Pitches == {0, quarterCircle, south, 100, -4}
Thrusts == {-MaxThrust, -1, 0, defaultThrust, MaxThrust}
Rolls == {-MaxRoll, 0, MaxRoll}
RollToAngles == {1, MaxRoll}
InitMove ==
    /\ ColInit /\ IdleMap /\ LoopInit /\ FnInit
    /\ \E x \in ShipXs, y \in ShipYs, z \in ShipZs, thrust \in Thrusts,
          heading \in Headings, pitch \in Pitches, roll \in Rolls,
          rollToAngle \in RollToAngles :
          ShipInit(Valkyrie(x, y, z, thrust, heading, pitch, roll, rollToAngle),
                   ProgramListeners)
NextMove == Move
SpecMove == InitMove /\ [][NextMove]_vars

\* The ship heading east, level, with any thrust.
InitThrust ==
    /\ ColInit /\ IdleMap /\ LoopInit /\ FnInit
    /\ \E x \in {0, Shr(Pow2(coordinateBits), 1), Pow2(coordinateBits) - 1},
          thrust \in -MaxThrust .. MaxThrust :
          ShipInit(Valkyrie(x, Shr(Pow2(coordinateBits), 1), maxHeight, thrust,
                            east, 0, 0, 1),
                   ProgramListeners)
SpecThrust == InitThrust /\ [][NextMove]_vars

\* Move observers registered, removed and notified.
InitObservers ==
    /\ ColInit /\ IdleMap /\ LoopInit /\ FnInit
    /\ ShipInit(ProgramShip, << >>)
NextObservers ==
    \/ \E h \in MoveHandlerIds : AddMoveListener(h)
    \/ \E h \in MoveHandlerIds : RemoveMoveListener(h)
    \/ Move
SpecObservers == InitObservers /\ [][NextObservers]_vars

\* The functions of the module, called with any arguments.
InitFunctions ==
    /\ ColInit /\ IdleMap /\ ShipInit(ProgramShip, ProgramListeners) /\ LoopInit /\ FnInit
NextFunctions ==
    AngleFromCoordinates \/ AngleFromCosSin \/ FindIndexOf \/ FractalInterpolation
SpecFunctions == InitFunctions /\ [][NextFunctions]_vars

\* The program with any ship: the one the page creates or one that has flown, low
\* over the seam of the map, turning.
DrawShips ==
    {ProgramShip, Valkyrie(100, 65000, 1000, defaultThrust, 1000, 0, 1, 1)}
InitDraw == \E s \in DrawShips : ProgramInit(s)
SpecDraw == InitDraw /\ [][Next]_vars

\* fractalInterpolation called twice, as the renderer calls it.
NextFractal == FractalInterpolationAgain
SpecFractal == InitFunctions /\ [][NextFractal]_vars

-----------------------------------------------------------------------------
(* Claims.                                                                 *)

RECURSIVE MaxOf(_)
MaxOf(seq) ==
    IF Len(seq) = 1 THEN seq[1]
    ELSE LET m == MaxOf(Tail(seq)) IN IF seq[1] > m THEN seq[1] ELSE m

\* The number of entries of seq strictly greater than every entry before them.
StrictRunningMaxima(seq) ==
    Cardinality({i \in DOMAIN seq : \A j \in 1 .. (i - 1) : seq[j] < seq[i]})

Kinds(out) == [i \in DOMAIN out |-> out[i].pixel]

\* C1: within a frame, the recorded top of every in-viewport column that has
\* received candidates equals the greatest candidate submitted so far (and so
\* never decreases).
C1_RecordedIsRunningMax ==
    \A c \in Columns :
        submitted[c] # << >> => topHeights[c] = MaxOf(submitted[c])

\* C2: the first candidate of a column paints sky and mountain and is recorded, a
\* later candidate taller than the recorded height paints the edge line and the
\* exposed band and is recorded, any other candidate paints nothing and leaves the
\* buffer alone; so the mountain paints of a column number its strict running maxima.
C2_PaintsExactlyRunningMaxima ==
    /\ \A c \in Columns : mountainDraws[c] = StrictRunningMaxima(submitted[c])
    /\ lastCall.x \in Columns =>
          IF Len(submitted[lastCall.x]) = 1
          THEN /\ Kinds(drawn) = <<"sky", "mountain">>
               /\ topHeights[lastCall.x] = lastCall.top
          ELSE IF lastCall.top > lastCall.before
          THEN /\ Kinds(drawn) = <<"edge", "mountain">>
               /\ topHeights[lastCall.x] = lastCall.top
          ELSE /\ drawn = << >>
               /\ topHeights[lastCall.x] = lastCall.before


\* The greatest integer not above num / den, den > 0.
FloorOf(num, den) ==
    CHOOSE i \in ((num \div den) - 2) .. ((num \div den) + 2) :
        i * den <= num /\ num < (i + 1) * den

\* a and b differ by a multiple of n.
Congruent(a, b, n) == (a - b) % n = 0

\* The representative of a in 0 .. n - 1.
Wrapped(a, n) == CHOOSE r \in 0 .. (n - 1) : Congruent(a, r, n)

GetCoords == (-MaxWrap * size) .. ((MaxWrap + 1) * size - 1)

\* Pairs (k, m) of whole grid widths to shift a row and a column by.
Shifts == { <<MaxWrap, -MaxWrap>>, <<-MaxWrap, MaxWrap>>, <<1, 1>>, <<0, MaxWrap>>,
            <<-1, 0>>, <<-MaxWrap, -1>> }

\* C3: get(row, col) = get(row + k*N, col + m*N) for all integers, negative ones
\* included; after set(row, col, v) every coordinate congruent to (row, col) modulo N
\* reads floor(v) and every other cell reads what it read before.
C3_GetSetWrap ==
    /\ \A p \in SetPoints \cup {<<1, size - 1>>, <<size + 1, -size>>}, km \in Shifts :
          MapGet(map, size, p[1], p[2])
              = MapGet(map, size, p[1] + km[1] * size, p[2] + km[2] * size)
    /\ lastOp.op = "set" =>
          \A row \in GetCoords, col \in GetCoords :
              IF Congruent(row, lastOp.row, size) /\ Congruent(col, lastOp.col, size)
              THEN MapGet(map, size, row, col) = FloorOf(lastOp.num, lastOp.den)
              ELSE MapGet(map, size, row, col) = MapGet(prevMap, size, row, col)

\* A set() at a negative row and a column beyond the grid, storing floor(-3/2) = -2.
C3_Witness ==
    /\ lastOp.op = "set" /\ lastOp.row < 0 /\ lastOp.col >= size /\ lastOp.num = -3
    /\ size = 3
    /\ MapGet(map, size, lastOp.row + size, lastOp.col - size) = -2

AllCells == (0 .. (size - 1)) \X (0 .. (size - 1))

\* C4: all through generate() and after it, every cell holds an integer elevation
\* in 0 .. maxHeight, whatever the random draws.
C4_ElevationsInRange ==
    \A cell \in AllCells : map[cell[1]][cell[2]] \in 0 .. maxHeight

GenerateDone == lastOp.op \in {"diamond", "square"} /\ stack = << >>

\* generate() has returned on the full-size grid, after clamping at both ends.
C4_Witness ==
    /\ GenerateDone /\ size = mapSize
    /\ \E cell \in AllCells : map[cell[1]][cell[2]] = maxHeight
    /\ \E cell \in AllCells : map[cell[1]][cell[2]] = 0

\* C5: generate() on a grid of 2, 4, 8 or 16 cells a side ends; it writes no cell
\* twice, and when it has returned every cell has been written once and every
\* observer has been notified N*N times per registration.
C5_EveryCellWrittenOnce ==
    /\ draws <= size * size
    /\ \A cell \in AllCells : writes[cell[1]][cell[2]] <= 1
    /\ GenerateDone =>
          /\ \A cell \in AllCells : writes[cell[1]][cell[2]] = 1
          /\ \A h \in HandlerIds :
                notifyCount[h] = Occurrences(changeHandlers, h) * size * size

\* generate() has returned on the full-size grid with two observers registered.
C5_Witness ==
    /\ GenerateDone /\ size = mapSize /\ changeHandlers = <<1, 2>>
    /\ notifyCount[2] = mapSize * mapSize

\* C6: every move() calls every observer registered when it began exactly once,
\* in registration order, with the ship as updated by that move().
C6_AllObserversOnceInOrder ==
    moves > 0 =>
        moveCalls = [i \in 1 .. Len(handlersAtMove) |-> <<handlersAtMove[i], ship>>]

\* C7: every set() of the last operation called each registered handler once per
\* registration, in registration order, with the wrapped row and column and the
\* floored value stored; removeChangeListener removes one registration of its
\* handler, or nothing when the handler is not registered.
C7_SetNotifiesHandlers ==
    LET H == Len(changeHandlers) IN
    /\ Len(notified) = Len(setLog) * H
    /\ \A i \in 1 .. Len(setLog) :
          LET r == Wrapped(setLog[i].row, size)
              c == Wrapped(setLog[i].col, size)
              v == FloorOf(setLog[i].num, setLog[i].den)
          IN  /\ \A j \in 1 .. H :
                    notified[(i - 1) * H + j] = <<changeHandlers[j], r, c, v>>
              /\ lastOp.op \in {"set", "slope1", "slope2"} => map[r][c] = v
    /\ lastOp.op # "remove" => \/ changeHandlers = prevChange
                               \/ lastOp.op = "add"
    /\ lastOp.op = "remove" =>
          IF \A i \in DOMAIN prevChange : prevChange[i] # lastOp.h
          THEN changeHandlers = prevChange
          ELSE \E i \in DOMAIN prevChange :
                  /\ prevChange[i] = lastOp.h
                  /\ changeHandlers = [j \in 1 .. (Len(prevChange) - 1) |->
                                          IF j < i THEN prevChange[j]
                                          ELSE prevChange[j + 1]]

\* A set() across the border with one handler registered twice and another once.
C7_Witness ==
    /\ lastOp.op = "set" /\ lastOp.row < 0 /\ lastOp.col >= size
    /\ changeHandlers = <<2, 1, 2>>
    /\ Len(notified) = 3

\* C8: after any move(), heading is in [0, fullCircle), x and y are in
\* [0, 2^coordinateBits) and z is in [0, 2^coordinateBits].
C8_ShipInRange ==
    moves > 0 =>
        /\ ship.heading \in 0 .. (fullCircle - 1)
        /\ ship.x \in 0 .. (Pow2(coordinateBits) - 1)
        /\ ship.y \in 0 .. (Pow2(coordinateBits) - 1)
        /\ ship.z \in 0 .. Pow2(coordinateBits)

\* A move() that wrapped the heading and x and clamped z from above.
C8_Witness ==
    /\ moves > 0
    /\ shipAtMove.heading + shipAtMove.roll * shipAtMove.rollToAngle < 0
    /\ shipAtMove.x = -1
    /\ shipAtMove.z = Pow2(coordinateBits) /\ ship.z = Pow2(coordinateBits)
    /\ shipAtMove.thrust = MaxThrust /\ shipAtMove.pitch = quarterCircle

\* C9: heading east and level, one move() with thrust T leaves heading, y and z as
\* they were and sets x to (x + T) modulo 2^coordinateBits.
C9_EastMoveAddsThrust ==
    moves > 0 =>
        /\ ship.heading = shipAtMove.heading
        /\ ship.y = shipAtMove.y
        /\ ship.z = shipAtMove.z
        /\ ship.x = (shipAtMove.x + shipAtMove.thrust) % Pow2(coordinateBits)

\* C10: a tick requested while a tick's move and render are in flight is
\* discarded: it never calls move() nor starts a frame, and it is not kept waiting
\* when the flight is over. A tick requested when none is in flight makes exactly
\* one move(), which calls each listener once. The guard flag is set exactly while
\* a tick is in flight, and so is clear whenever none is executing.
C10_TickInFlightDiscarded ==
    /\ [](rendering = TickInFlight)
    /\ [](timer = "late" => TickInFlight)
    /\ [][/\ timer = "late" => UNCHANGED <<ship, moves, framesDrawn>>
          /\ (timer = "due" /\ frame' # frame) =>
                /\ moves' = moves + 1
                /\ ship' = moved(ship)
                /\ Len(moveCalls') = Len(ProgramListeners)]_vars

\* C12: angleFromCoordinates(x, y) is an integer in [0, fullCircle) for all integers
\* x and y, the axes and the origin included.
C12_AngleInRange ==
    call.fn = "angleFromCoordinates" => call.result \in 0 .. (fullCircle - 1)

\* C13: for every table angle a, angleFromCoordinates(cos(a), sin(a)) is within one
\* angle unit of a.
C13_RoundTripWithinOneStep ==
    call.fn = "angleFromCosSin" =>
        call.result - call.a \in -1 .. 1

\* C14: on a table in order with at least two entries findIndexOf returns 0 for a
\* query below the first entry, and otherwise an index i with table[i] <= v and
\* i last, or v < table[i+1], or table[i] = v; on the regression table the queries
\* 0 .. 19 give the expected list position by position.
C14_FindIndexOfNearestBelow ==
    call.fn = "findIndexOf" =>
        LET t == call.table
            v == call.val
            i == call.result
        IN  /\ v < t[1] => i = 0
            /\ v >= t[1] =>
                  /\ i \in 0 .. (Len(t) - 1)
                  /\ t[i + 1] <= v
                  /\ \/ i = Len(t) - 1
                     \/ v < t[i + 2]
                     \/ t[i + 1] = v
            /\ (t = RegressionTable /\ v \in RegressionQueries) =>
                  i = RegressionExpected[v + 1]

\* The regression test's query 15, which falls on the doubled entry.
C14_Witness ==
    /\ call.fn = "findIndexOf" /\ call.table = RegressionTable
    /\ call.val = 15 /\ call.result = 2

\* The displacement of a fractalInterpolation call: its result less the linear
\* midpoint of the same arguments.
Displacement(c) ==
    LET lin == linearInterpolation(c.yMountain1, c.yMountain2, c.xScreen1, c.xScreen2,
                                   c.yScreen1, c.yScreen2, c.bisections)
    IN  << c.result[1] - lin[1], c.result[2] - lin[2] >>

ByteSum(c) == (c.yMountain1 % 256) + (c.yMountain2 % 256)

\* C15: when the byte sum exceeds 255 fractalInterpolation returns the linear
\* midpoints; otherwise both components are displaced in the same direction,
\* downwards when bit 7 of the sum is set and upwards when it is clear.
C15_FractalDisplacementDirection ==
    call.fn = "fractalInterpolation" =>
        LET d == Displacement(call) IN
        IF ByteSum(call) > 255 THEN d = <<0, 0>>
        ELSE IF (ByteSum(call) \div 128) % 2 = 1
        THEN d[1] < 0 /\ d[2] <= 0
        ELSE d[1] > 0 /\ d[2] >= 0

SameElevationsAndDepth ==
    /\ call.fn = "fractalInterpolation" /\ prevCall.fn = "fractalInterpolation"
    /\ call.yMountain1 = prevCall.yMountain1
    /\ call.yMountain2 = prevCall.yMountain2
    /\ call.bisections = prevCall.bisections

SameColumnDistance ==
    Abs(call.xScreen2 - call.xScreen1) = Abs(prevCall.xScreen2 - prevCall.xScreen1)

\* C16: two calls of fractalInterpolation that agree on the elevations and the
\* bisection depth apply the same displacement to the elevation and to the screen
\* row, whatever their other arguments.
C16_DisplacementFromElevationsAndDepth ==
    SameElevationsAndDepth => Displacement(call) = Displacement(prevCall)

\* C16 as amended: two such calls displace the elevation identically, and the
\* screen row identically when they also agree on |xScreen2 - xScreen1|.
C16_DisplacementFromElevationsDepthAndDistance ==
    SameElevationsAndDepth =>
        /\ Displacement(call)[1] = Displacement(prevCall)[1]
        /\ SameColumnDistance => Displacement(call)[2] = Displacement(prevCall)[2]

\* Two calls with the same elevations, depth and column distance but other columns
\* and rows, displacing the screen row by 48 >> 2 = 12.
C16_Witness ==
    /\ SameElevationsAndDepth /\ SameColumnDistance
    /\ call.xScreen1 # prevCall.xScreen1 /\ call.yScreen2 # prevCall.yScreen2
    /\ Displacement(call)[2] = 12

IsPowerOfTwo(n) == \E k \in 0 .. n : Pow2(k) = n

\* C18: a Map constructed with a grid size that is not a power of two is not a
\* usable object: construction fails, so no set() or generate() ever runs on it.
C18_ConstructionFailsFast == IsPowerOfTwo(size) \/ lastOp.op = "none"

\* C19: on a grid of 4, 8 or 16 cells a side, every cell a diamond or square step
\* of generate() averages was written earlier in the same generate().
C19_ReadsOnlyWrittenCells ==
    (size \in {4, 8, 16} /\ lastOp.op \in {"diamond", "square"}) =>
        \A i \in DOMAIN lastOp.reads : lastOp.reads[i].written

Outside(x) == x < 0 \/ x >= width

\* C11: an invocation of #interpolate takes its early exit, drawing no column and
\* not recursing, when both endpoint columns x1 and x2 lie outside [0, width), and
\* only then.
C11_EarlyExitIffBothOutside ==
    \A i \in DOMAIN interpolated :
        LET inv == interpolated[i]
            bothOutside == Outside(inv.x1) /\ Outside(inv.x2)
        IN  /\ inv.exit => bothOutside
            /\ bothOutside => (inv.exit /\ ~inv.column)

\* C20: every candidate top draw() passes to #drawMountainColumn for a column of the
\* viewport lies in [0, viewportHeight].
C20_CandidatesInViewport ==
    \A c \in Columns : \A i \in DOMAIN submitted[c] :
        submitted[c][i] >= 0 /\ submitted[c][i] <= viewportHeight

\* The frame draw() paints for the ship s over the grid m of size n on a viewport
\* of w columns, worked out from an undrawn buffer and an empty memo: every
\* statement's #drawMountainColumn calls, in order, applied to the blank buffer.
frameOf(s, m, n, w) ==
    LET statements == drawStatements(Shr(s.x, bitsBetweenTops), Shr(s.y, bitsBetweenTops))
        at(x, y) == computeScreenCoordinatesFor(s, m, n, w, x, y)
        callsOf(st) ==
            IF st.op = "interpolate"
            THEN interpolate(w, MapGet(m, n, st.xMap1, st.yMap1),
                             MapGet(m, n, st.xMap2, st.yMap2),
                             at(st.xMap1, st.yMap1).x, at(st.xMap2, st.yMap2).x,
                             at(st.xMap1, st.yMap1).y, at(st.xMap2, st.yMap2).y, 0).calls
            ELSE IF st.op = "draw"
            THEN << [x |-> at(st.xMap1, st.yMap1).x, top |-> at(st.xMap1, st.yMap1).y] >>
            ELSE << >>
        blank == [th |-> [c \in 0 .. (w - 1) |-> -1], drawn |-> << >>,
                  submitted |-> NoColumns(w),
                  mountainDraws |-> [c \in 0 .. (w - 1) |-> 0], lastCall |-> NoCall]
    IN  drawColumns(blank, w, Concat([k \in DOMAIN statements |-> callsOf(statements[k])]))

\* draw() has reset the buffer and the memo and has run no statement yet.
FrameStart ==
    /\ agenda # << >>
    /\ agenda = drawStatements(Shr(ship.x, bitsBetweenTops), Shr(ship.y, bitsBetweenTops))

FrameEnd == framesDrawn > 0 /\ agenda = << >>

\* C17: at the start of every draw() every column of the occlusion buffer is undrawn
\* and the memo is empty; the memo of a frame holds projections for the ship of that
\* frame only, and the heights recorded and the spans painted in a frame are those
\* the ship and the terrain of that frame give from a blank buffer.
C17_FrameScoped ==
    /\ FrameStart => /\ \A c \in Columns : topHeights[c] = -1
                     /\ memo = EmptyMemo
    /\ \A cell \in DOMAIN memo :
          memo[cell] = computeScreenCoordinatesFor(ship, map, size, width, cell[1], cell[2])
    /\ FrameEnd => LET F == frameOf(ship, map, size, width)
                   IN  /\ topHeights = F.th
                       /\ submitted = F.submitted
                       /\ mountainDraws = F.mountainDraws

\* A later frame is complete: the ship has moved since the frame before and the
\* terrain has relief.
C17_Witness ==
    /\ FrameEnd /\ framesDrawn >= 2 /\ ship # shipAtMove
    /\ \E c \in Columns : topHeights[c] > 0
    /\ \E r \in DOMAIN map : \E c \in DOMAIN map[r] : map[r][c] > 0

\* The call of the interpolation law an invocation of #interpolate made.
LawCall(inv) ==
    FractalCall(inv.yMountain1, inv.yMountain2, inv.x1, inv.x2, inv.y1, inv.y2,
                inv.bisections)

\* C21: the bisection depth with which #interpolate calls the interpolation law
\* never exceeds bitsBetweenTops - 2 = 10, so the law's shift amount is never
\* negative and an elevation it displaces moves by 2^(10 - depth).
C21_DepthAtMostTen ==
    \A i \in DOMAIN interpolated :
        LET inv == interpolated[i] IN
        inv.column =>
            /\ inv.bisections <= bitsBetweenTops - 2
            /\ ByteSum(LawCall(inv)) <= 255 =>
                  Abs(Displacement(LawCall(inv))[1])
                      = Pow2(bitsBetweenTops - 2 - inv.bisections)

\* An invocation eight bisections deep calls the law, which displaces the elevation
\* by 2^2.
C21_Witness ==
    \E i \in DOMAIN interpolated :
        /\ interpolated[i].column /\ interpolated[i].bisections = 8
        /\ ByteSum(LawCall(interpolated[i])) <= 255
        /\ Abs(Displacement(LawCall(interpolated[i]))[1]) = 4

\* C22: one move() leaves x, y and z where a move() from the same state with the
\* pitch reduced modulo fullCircle leaves them.
C22_PitchModuloFullCircle ==
    moves > 0 =>
        LET reduced == moved([shipAtMove EXCEPT !.pitch = mod(@, fullCircle)])
        IN  ship.x = reduced.x /\ ship.y = reduced.y /\ ship.z = reduced.z

\* C23: findIndexOf(val, table) returns an index of a table value closest to val.
C23_FindIndexOfClosest ==
    call.fn = "findIndexOf" =>
        \A j \in 1 .. Len(call.table) :
            Abs(call.table[call.result + 1] - call.val) <= Abs(call.table[j] - call.val)

\* The cell the ship of the frame is over.
ShipCell == << Shr(ship.x, bitsBetweenTops), Shr(ship.y, bitsBetweenTops) >>

\* The Chebyshev distance of the cell (x, y) from the ship's cell.
Ring(x, y) ==
    LET dx == Abs(x - ShipCell[1])
        dy == Abs(y - ShipCell[2])
    IN  IF dx > dy THEN dx ELSE dy

\* The cells within Chebyshev distance d of the ship's cell, unwrapped.
Within(d) ==
    {<<x, y>> : x \in (ShipCell[1] - d) .. (ShipCell[1] + d),
                y \in (ShipCell[2] - d) .. (ShipCell[2] + d)}

\* The statement draw() runs next reads the memo.
ReadsMemo == agenda # << >> /\ Head(agenda).op \in {"interpolate", "draw"}

\* C24: the memo entries the next #interpolateFromMemo or
\* #drawMountainColumnFromMemo reads were written earlier in the frame; once the
\* projections of ring d are done the memo holds every cell within Chebyshev
\* distance d of the ship's cell, and a finished frame holds the whole square.
C24_MemoComplete ==
    /\ ReadsMemo =>
          LET st == Head(agenda) IN
          /\ <<st.xMap1, st.yMap1>> \in DOMAIN memo
          /\ <<st.xMap2, st.yMap2>> \in DOMAIN memo
          /\ Within(Ring(st.xMap2, st.yMap2)) \subseteq DOMAIN memo
    /\ FrameEnd => DOMAIN memo = Within(viewDistance - 1)

\* Over the border of the map the outermost ring is being interpolated to a cell
\* whose column is negative and whose row exceeds mapSize - 1.
C24_Witness ==
    /\ ReadsMemo /\ Head(agenda).op = "interpolate"
    /\ ShipCell[1] = 0
    /\ Head(agenda).xMap2 < 0 /\ Head(agenda).yMap2 > mapSize - 1
    /\ Ring(Head(agenda).xMap2, Head(agenda).yMap2) = viewDistance - 1
    /\ <<Head(agenda).xMap2, Head(agenda).yMap2>> \in DOMAIN memo

====
